---- MODULE Spec2Model ----
(***************************************************************************)
(* A model of the XTCE message codec of python-xtce: the entry planner,    *)
(* SpaceSystemEncoder.encode / decode / _decode_message (xtcemsg.py) and   *)
(* the data encodings and dictionary lookups they use (xtceschema.py).     *)
(*                                                                         *)
(* Bit strings are sequences over {0,1}.  Text (the value of a Comparison, *)
(* the result of str()) is a sequence of one-character strings.  A record  *)
(* entry value is [k, i, s]: k the Python type ("int", "bool", "bits",     *)
(* "list", "str", "float"), i the number of an int/bool/float, s the       *)
(* content of a bitarray, list or str.                                     *)
(***************************************************************************)
EXTENDS Integers, Sequences, FiniteSets, TLC

VARIABLES ss, pc, given, msg, encoded, arg, call, stack, ret, log, probe

vars == <<ss, pc, given, msg, encoded, arg, call, stack, ret, log, probe>>

\* Longest bit buffer a caller hands to decode directly.
MaxBits == 5
\* Largest integer a caller puts into a record field (the smallest is -1).
MaxVal == 2
\* Longest base-container chain the planner is followed along.
MaxChain == 6

-----------------------------------------------------------------------------
\* Values of record entries

IntV(n) == [k |-> "int", i |-> n, s |-> <<>>]
BoolV(b) == [k |-> "bool", i |-> IF b THEN 1 ELSE 0, s |-> <<>>]
BitsV(b) == [k |-> "bits", i |-> 0, s |-> b]
ListV(l) == [k |-> "list", i |-> 0, s |-> l]
StrV(t) == [k |-> "str", i |-> 0, s |-> t]
\* A float, counted in units of 1/unit of the calibrator it belongs to.
FloatV(n) == [k |-> "float", i |-> n, s |-> <<>>]

\* Python ==, as dict equality applies it to two entry values (True == 1).
PyEq(v, w) ==
    IF v.k \in {"int", "bool"} /\ w.k \in {"int", "bool"}
    THEN v.i = w.i
    ELSE v.k = w.k /\ v.s = w.s

\* Python == of two entries dicts.
EntriesEq(e, f) ==
    /\ DOMAIN e = DOMAIN f
    /\ \A n \in DOMAIN e : PyEq(e[n], f[n])

NoEntries == [n \in {} |-> IntV(0)]

\* d[name] = v, adding the key when absent.
SetEntry(e, name, v) ==
    [n \in DOMAIN e \cup {name} |-> IF n = name THEN v ELSE e[n]]

-----------------------------------------------------------------------------
\* Text: str() and int()

Digits == <<"0", "1", "2", "3", "4", "5", "6", "7", "8", "9">>

RECURSIVE NatStr(_)
NatStr(n) ==
    IF n < 10 THEN <<Digits[n + 1]>>
    ELSE NatStr(n \div 10) \o <<Digits[(n % 10) + 1]>>

IntStr(n) == IF n < 0 THEN <<"-">> \o NatStr(-n) ELSE NatStr(n)

RECURSIVE JoinInts(_, _)
JoinInts(l, sep) ==
    IF l = <<>> THEN <<>>
    ELSE IF Len(l) = 1 THEN IntStr(l[1])
    ELSE IntStr(l[1]) \o sep \o JoinInts(Tail(l), sep)

\* str(value) of an entry value.
Str(v) ==
    CASE v.k = "int" -> IntStr(v.i)
      [] v.k = "bool" -> IF v.i = 1 THEN <<"T", "r", "u", "e">>
                         ELSE <<"F", "a", "l", "s", "e">>
      [] v.k = "list" -> <<"[">> \o JoinInts(v.s, <<",", " ">>) \o <<"]">>
      [] v.k = "str" -> v.s
      [] OTHER -> <<"b", "i", "t", "a", "r", "r", "a", "y", "(", "'">>
                  \o JoinInts(v.s, <<>>) \o <<"'", ")">>

DigitVal(c) == CHOOSE d \in 0..9 : Digits[d + 1] = c

IsDigit(c) == \E d \in 0..9 : Digits[d + 1] = c

RECURSIVE DigitsVal(_, _)
DigitsVal(t, acc) ==
    IF t = <<>> THEN acc
    ELSE DigitsVal(Tail(t), 10 * acc + DigitVal(t[1]))

\* int(text): an optional sign and one or more decimal digits; anything else
\* is a ValueError.
PyInt(t) ==
    LET signed == t # <<>> /\ t[1] \in {"-", "+"}
        body == IF signed THEN Tail(t) ELSE t
    IN IF body = <<>> \/ \E j \in 1..Len(body) : ~IsDigit(body[j])
       THEN [ok |-> FALSE, v |-> 0]
       ELSE [ok |-> TRUE,
             v |-> IF signed /\ t[1] = "-" THEN -DigitsVal(body, 0)
                   ELSE DigitsVal(body, 0)]

-----------------------------------------------------------------------------
\* Bit strings

Bit == {0, 1}

Zeros(n) == [j \in 1..n |-> 0]

\* b[:n] of Python: n < 0 counts from the end.
SliceTo(b, n) ==
    LET m == IF n < 0 THEN (IF Len(b) + n < 0 THEN 0 ELSE Len(b) + n)
             ELSE (IF n > Len(b) THEN Len(b) ELSE n)
    IN SubSeq(b, 1, m)

\* b[n:] of Python, which is also b after del b[:n].
SliceFrom(b, n) ==
    LET m == IF n < 0 THEN (IF Len(b) + n < 0 THEN 0 ELSE Len(b) + n)
             ELSE (IF n > Len(b) THEN Len(b) ELSE n)
    IN SubSeq(b, m + 1, Len(b))

\* A fault of LastBits: the leading n bits, b[:n].
FirstBits(b, n) == SubSeq(b, 1, IF n > Len(b) THEN Len(b) ELSE n)

\* b[-n:] of Python for n >= 0 (b[-0:] is all of b).
LastBits(b, n) ==
    IF n = 0 \/ n > Len(b) THEN b ELSE SubSeq(b, Len(b) - n + 1, Len(b))

\* The n-bit big-endian representation of u, 0 <= u < 2^n.
RECURSIVE ToBits(_, _)
ToBits(u, n) ==
    IF n = 0 THEN <<>> ELSE ToBits(u \div 2, n - 1) \o <<u % 2>>

RECURSIVE FromBits(_)
FromBits(b) ==
    IF b = <<>> THEN 0
    ELSE 2 * FromBits(SubSeq(b, 1, Len(b) - 1)) + b[Len(b)]

\* _pad_bits: zero bits in front up to a whole number of bytes.
PadBits(v) ==
    LET n == Len(v) % 8
    IN IF n # 0 THEN Zeros(8 - n) \o v ELSE v

-----------------------------------------------------------------------------
\* The linear PolynomialCalibrator.  Coefficients and calibrated values are
\* exact multiples of 1/unit, small enough for the double-precision results
\* of the code to be these values up to the noise round(x, 12) removes.

\* PolynomialCalibrator.calibrate(x) of an integer x: c0 + c1 * x.
Calibrate(t, x) == FloatV(t.term[1] + (t.term[2] * x.i))

\* PolynomialCalibrator.uncalibrate(y) with two terms: (y - c0) / c1, rounded
\* to 12 decimals (which leaves the quotient of two small integers on its
\* side of every integer) and truncated towards zero by int().
Uncalibrate(t, y) ==
    LET num == (IF y.k = "float" THEN y.i ELSE y.i * t.unit) - t.term[1]
        den == t.term[2]
        Abs(n) == IF n < 0 THEN -n ELSE n
    IN IF den = 0 THEN [ok |-> FALSE, err |-> "zerodivision", v |-> IntV(0)]
       ELSE [ok |-> TRUE, err |-> "",
             v |-> IntV(IF (num < 0) = (den < 0) THEN Abs(num) \div Abs(den)
                        ELSE -(Abs(num) \div Abs(den)))]

-----------------------------------------------------------------------------
\* Data encodings.  A type is [name, kind, sizeInBits, signed, sizeRef,
\* arrayTypeRef, startingIndex, endingIndex, zeroStringValue, oneStringValue,
\* terminationChar, term, unit]; kind is "integer", "boolean", "binary",
\* "array", "string" or "polynomial" (a PolynomialCalibrator on its own, term
\* its coefficients by exponent, counted like its floats in units of 1/unit).  terminationChar is <<>> for None and <<h>> for the hex string h,
\* h a sequence of hex digit values.  Every operation returns a record with ok = FALSE and
\* the kind of the exception in err when the Python code raises.

Pow2(n) == 2 ^ n

Bytes(n) == (n + 7) \div 8

\* int.to_bytes(size_in_bytes, signed=..., byteorder='big') as bits, or the
\* OverflowError when the value does not fit the BYTES.
ToBytes(i, nbytes, signed) ==
    LET w == 8 * nbytes
        fits == IF signed
                THEN (w = 0 /\ i = 0) \/ (w > 0 /\ -Pow2(w - 1) <= i /\ i < Pow2(w - 1))
                ELSE 0 <= i /\ i < Pow2(w)
    IN IF fits THEN [ok |-> TRUE, bits |-> ToBits(i % Pow2(w), w)]
       ELSE [ok |-> FALSE, bits |-> <<>>]

\* IntegerDataEncoding.encode without a calibrator.
IntegerEncode(t, v) ==
    IF v.k \notin {"int", "bool"}
    THEN [ok |-> FALSE, err |-> "type", bits |-> <<>>]
    ELSE LET enc == ToBytes(v.i, Bytes(t.sizeInBits), t.signed)
         IN IF ~enc.ok THEN [ok |-> FALSE, err |-> "overflow", bits |-> <<>>]
            ELSE [ok |-> TRUE, err |-> "",
                  bits |-> LastBits(enc.bits, t.sizeInBits)]

\* int.from_bytes(bytes, signed=..., byteorder='big') of a whole number of bytes.
FromBytes(b, signed) ==
    IF signed /\ b # <<>> /\ b[1] = 1
    THEN FromBits(b) - Pow2(Len(b))
    ELSE FromBits(b)

\* IntegerDataEncoding.decode without a calibrator.
IntegerDecode(t, b) ==
    IF Len(b) # t.sizeInBits
    THEN [ok |-> FALSE, err |-> "size", v |-> IntV(0)]
    ELSE [ok |-> TRUE, err |-> "", v |-> IntV(FromBytes(PadBits(b), t.signed))]

\* BooleanDataEncoding.encode: _to_int, then the wrapped integer encoding.
BooleanEncode(t, v) ==
    IF v.k \notin {"int", "bool"}
    THEN [ok |-> FALSE, err |-> "type", bits |-> <<>>]
    ELSE IntegerEncode(t, IntV(IF v.i # 0 THEN 1 ELSE 0))

\* BooleanDataEncoding.decode: the wrapped integer decoding, then _from_int.
BooleanDecode(t, b) ==
    LET d == IntegerDecode(t, b)
    IN IF ~d.ok THEN d ELSE [ok |-> TRUE, err |-> "", v |-> BoolV(d.v.i # 0)]

\* The characters strings are made of here, each with its code point; a
\* decimal digit is the character of code point 48 + its value.
CodePoints ==
    <<<<"U+0000", 0>>, <<"U+000A", 10>>, <<"U+000D", 13>>, <<"-", 45>>,
      <<"A", 65>>, <<"U+00E9", 233>>, <<"U+FFFD", 65533>>>>

\* str.encode('utf-8'): a sequence of bytes, each 0..255.
RECURSIVE Utf8Encode(_)
Utf8Encode(text) ==
    IF text = <<>> THEN <<>>
    ELSE LET c == text[1]
             cp == IF IsDigit(c) THEN 48 + DigitVal(c)
                   ELSE (CHOOSE q \in {CodePoints[j] : j \in 1..Len(CodePoints)} :
                           q[1] = c)[2]
             bytes == IF cp < 128 THEN <<cp>>
                      ELSE IF cp < 2048 THEN <<192 + (cp \div 64), 128 + (cp % 64)>>
                      ELSE <<224 + (cp \div 4096), 128 + ((cp \div 64) % 64),
                             128 + (cp % 64)>>
         IN bytes \o Utf8Encode(Tail(text))

\* bytes.decode('utf-8'), and with errors='replace' when that raises: every
\* maximal ill-formed run of bytes becomes one U+FFFD.  (For well-formed
\* bytes the two give the same text.)
RECURSIVE Utf8Decode(_)
Utf8Decode(b) ==
    IF b = <<>> THEN <<>>
    ELSE LET need == CASE b[1] < 128 -> 0
                       [] b[1] \in 194..223 -> 1
                       [] b[1] \in 224..239 -> 2
                       [] b[1] \in 240..244 -> 3
                       [] OTHER -> -1
             Lo(j) == IF j = 2 /\ b[1] = 224 THEN 160
                      ELSE IF j = 2 /\ b[1] = 240 THEN 144 ELSE 128
             Hi(j) == IF j = 2 /\ b[1] = 237 THEN 159
                      ELSE IF j = 2 /\ b[1] = 244 THEN 143 ELSE 191
             Cont(j) == j <= Len(b) /\ Lo(j) <= b[j] /\ b[j] <= Hi(j)
             k == Cardinality({j \in 2..(need + 1) : \A i \in 2..j : Cont(i)})
             cp == CASE need = 0 -> b[1]
                     [] need = 1 -> ((b[1] - 192) * 64) + (b[2] - 128)
                     [] need = 2 -> ((b[1] - 224) * 4096) + ((b[2] - 128) * 64)
                                    + (b[3] - 128)
                     [] OTHER -> ((b[1] - 240) * 262144) + ((b[2] - 128) * 4096)
                                 + ((b[3] - 128) * 64) + (b[4] - 128)
             chr == IF 48 <= cp /\ cp <= 57 THEN Digits[cp - 47]
                    ELSE (CHOOSE q \in {CodePoints[j] : j \in 1..Len(CodePoints)} :
                            q[2] = cp)[1]
         IN IF need >= 0 /\ k = need
            THEN <<chr>> \o Utf8Decode(SubSeq(b, need + 2, Len(b)))
            ELSE <<"U+FFFD">> \o Utf8Decode(SubSeq(b, k + 2, Len(b)))

\* A fault of GetTerminationBytes: the termination is never read.
NoTermination(t) == <<>>

\* StringDataEncoding._get_termination_bytes: None (<<>>), or <<bytes>> with
\* the bytes of the hex string; a hex string of odd length is a ValueError
\* of bytes.fromhex, answered with None.
GetTerminationBytes(t) ==
    IF t.terminationChar = <<>> \/ Len(t.terminationChar[1]) % 2 # 0 THEN <<>>
    ELSE LET h == t.terminationChar[1]
         IN <<[j \in 1..(Len(h) \div 2) |-> (16 * h[(2 * j) - 1]) + h[2 * j]]>>

\* StringDataEncoding.size of a fixed-size string: a fixedValue of 0 is
\* falsy and no other size is configured.
StringSize(t) ==
    IF t.sizeInBits # 0 THEN [ok |-> TRUE, err |-> "", n |-> t.sizeInBits]
    ELSE [ok |-> FALSE, err |-> "size", n |-> 0]

\* StringDataEncoding.encode
StringEncode(t, v) ==
    LET encoded_bytes == Utf8Encode(IF v.k = "str" THEN v.s ELSE Str(v))
        sz == StringSize(t)
        target_bytes == sz.n \div 8
        termination == GetTerminationBytes(t)
        terminated ==
          IF termination # <<>>
             /\ Len(encoded_bytes) + Len(termination[1]) <= target_bytes
          THEN encoded_bytes \o termination[1] ELSE encoded_bytes
        sized ==
          IF Len(encoded_bytes) > target_bytes THEN SubSeq(encoded_bytes, 1, target_bytes)
          ELSE IF Len(encoded_bytes) < target_bytes
          THEN terminated \o Zeros(target_bytes - Len(terminated))
          ELSE encoded_bytes
        result == [j \in 1..(8 * Len(sized)) |->
                     (sized[((j - 1) \div 8) + 1] \div Pow2(7 - ((j - 1) % 8))) % 2]
    IN IF ~sz.ok THEN [ok |-> FALSE, err |-> sz.err, bits |-> <<>>]
       ELSE [ok |-> TRUE, err |-> "", bits |-> SliceTo(result, sz.n)]

\* StringDataEncoding.decode
StringDecode(t, b) ==
    LET padded == PadBits(b)
        encoded_bytes == [j \in 1..(Len(padded) \div 8) |->
                            FromBits(SubSeq(padded, (8 * j) - 7, 8 * j))]
        termination == GetTerminationBytes(t)
        found == IF termination = <<>> THEN {}
                 ELSE {q \in 0..(Len(encoded_bytes) - Len(termination[1])) :
                         SubSeq(encoded_bytes, q + 1, q + Len(termination[1]))
                           = termination[1]}
        kept == {j \in 1..Len(encoded_bytes) : encoded_bytes[j] # 0}
        stripped ==
          IF termination # <<>>
          THEN IF found = {} THEN encoded_bytes
               ELSE SubSeq(encoded_bytes, 1, CHOOSE q \in found : \A r \in found : q <= r)
          ELSE IF kept = {} THEN <<>>
               ELSE SubSeq(encoded_bytes, 1, CHOOSE j \in kept : \A i \in kept : i <= j)
    IN [ok |-> TRUE, err |-> "", v |-> StrV(Utf8Decode(stripped))]

\* BinaryDataEncoding.size: the fixed size, or the value of the field the
\* dynamic size names, which must be an integer greater than zero.
BinarySize(t, parameters) ==
    IF t.sizeInBits # 0 THEN [ok |-> TRUE, err |-> "", n |-> t.sizeInBits]
    ELSE IF t.sizeRef \notin DOMAIN parameters
    THEN [ok |-> FALSE, err |-> "dynamic", n |-> 0]
    ELSE LET r == parameters[t.sizeRef]
         IN IF r.k \notin {"int", "bool"} \/ r.i <= 0
            THEN [ok |-> FALSE, err |-> "assert", n |-> 0]
            ELSE [ok |-> TRUE, err |-> "", n |-> r.i]

\* DimensionIndex.get_value
IndexValue(ix, parameters) ==
    IF ix.fixed THEN [ok |-> TRUE, err |-> "", n |-> ix.value]
    ELSE IF ix.ref \notin DOMAIN parameters
    THEN [ok |-> FALSE, err |-> "dynamic", n |-> 0]
    ELSE IF parameters[ix.ref].k \notin {"int", "bool"}
    THEN [ok |-> FALSE, err |-> "type", n |-> 0]
    ELSE [ok |-> TRUE, err |-> "", n |-> parameters[ix.ref].i]

\* A fault of ItemCount: the ending index taken as exclusive.
ItemCountExclusive(t, parameters) ==
    LET start == IndexValue(t.startingIndex, parameters)
        end == IndexValue(t.endingIndex, parameters)
    IN IF ~start.ok THEN start
       ELSE IF ~end.ok THEN end
       ELSE [ok |-> TRUE, err |-> "", n |-> end.n - start.n]

\* ArrayParameterType.item_count / ArrayArgumentType.item_count
ItemCount(t, parameters) ==
    LET start == IndexValue(t.startingIndex, parameters)
        end == IndexValue(t.endingIndex, parameters)
    IN IF ~start.ok THEN start
       ELSE IF ~end.ok THEN end
       ELSE [ok |-> TRUE, err |-> "", n |-> 1 + end.n - start.n]

\* ArrayParameterType.size: count times the size of the element encoding
\* (the element types of the dictionaries below are integer types).
ArraySize(t, item, parameters) ==
    LET c == ItemCount(t, parameters)
    IN IF ~c.ok THEN c ELSE [ok |-> TRUE, err |-> "", n |-> c.n * item.sizeInBits]

\* ArrayParameterType.encode: the elements of the value, each encoded by the
\* element encoding, one after the other.
RECURSIVE ArrayEncode(_, _)
ArrayEncode(item, l) ==
    IF l = <<>> THEN [ok |-> TRUE, err |-> "", bits |-> <<>>]
    ELSE LET h == IntegerEncode(item, IntV(l[1]))
             r == ArrayEncode(item, Tail(l))
         IN IF ~h.ok THEN h
            ELSE IF ~r.ok THEN r
            ELSE [ok |-> TRUE, err |-> "", bits |-> h.bits \o r.bits]

\* value[i*item_size:(i+1)*item_size] for i in range(count), each decoded.
RECURSIVE ArrayItems(_, _, _, _)
ArrayItems(item, b, j, count) ==
    IF j >= count THEN [ok |-> TRUE, err |-> "", l |-> <<>>]
    ELSE LET sz == item.sizeInBits
             h == IntegerDecode(item, SliceTo(SliceFrom(b, j * sz), sz))
             r == ArrayItems(item, b, j + 1, count)
         IN IF ~h.ok THEN [ok |-> FALSE, err |-> h.err, l |-> <<>>]
            ELSE IF ~r.ok THEN r
            ELSE [ok |-> TRUE, err |-> "", l |-> <<h.v.i>> \o r.l]

\* ArrayParameterType.decode
ArrayDecode(t, item, b, parameters) ==
    LET c == ItemCount(t, parameters)
    IN IF ~c.ok THEN [ok |-> FALSE, err |-> c.err, v |-> IntV(0)]
       ELSE LET d == ArrayItems(item, b, 0, c.n)
            IN IF ~d.ok THEN [ok |-> FALSE, err |-> d.err, v |-> IntV(0)]
               ELSE [ok |-> TRUE, err |-> "", v |-> ListV(d.l)]

-----------------------------------------------------------------------------
\* The dictionary (SpaceSystem) and its lookups.
\*
\* SpaceSystem: [sequenceContainer, metaCommand, parameter, types], each a
\*   sequence in document order.
\* Container:   [name, abstract, entryList, baseContainer], baseContainer =
\*   [containerRef, restrictionCriteria], containerRef = "" when there is none.
\* MetaCommand: [name, abstract, commandContainer, baseMetaCommand, argumentList]
\* Entry:       [kind, ref, includeCondition, binaryValue, sizeInBits], kind
\*   "parameter", "argument", "container" or "fixed".
\* Comparison:  [parameterRef, comparisonOperator, value, instance,
\*   useCalibratedValue].
\* A message type is named by [set, name], set "seq" (a SequenceContainer) or
\* "cmd" (a MetaCommand).

\* dict([(o.name, o) for o in objs])[name]: the index of the LAST object of
\* that name, 0 when there is none (KeyError).
IndexOf(objs, name) ==
    LET hits == {j \in 1..Len(objs) : objs[j].name = name}
    IN IF hits = {} THEN 0 ELSE CHOOSE j \in hits : \A h \in hits : h <= j

NoBase == [containerRef |-> "", restrictionCriteria |-> <<>>]

NoContainer ==
    [name |-> "", abstract |-> FALSE, entryList |-> <<>>, baseContainer |-> NoBase]

CommandContainers(SS) ==
    [j \in 1..Len(SS.metaCommand) |-> SS.metaCommand[j].commandContainer]

\* SpaceSystem.get_sequence_container
GetSequenceContainer(SS, name) ==
    LET j == IndexOf(SS.sequenceContainer, name)
    IN IF j = 0 THEN [ok |-> FALSE, con |-> NoContainer]
       ELSE [ok |-> TRUE, con |-> SS.sequenceContainer[j]]

\* SpaceSystem.get_meta_command
GetMetaCommand(SS, name) ==
    LET j == IndexOf(SS.metaCommand, name)
    IN IF j = 0 THEN [ok |-> FALSE, j |-> 0] ELSE [ok |-> TRUE, j |-> j]

\* SpaceSystem.get_container: command containers first, sequence containers
\* after them, the later one winning a name.
GetContainer(SS, name) ==
    LET js == IndexOf(SS.sequenceContainer, name)
        jc == IndexOf(CommandContainers(SS), name)
    IN IF js # 0 THEN [ok |-> TRUE, command |-> FALSE, con |-> SS.sequenceContainer[js]]
       ELSE IF jc # 0 THEN [ok |-> TRUE, command |-> TRUE, con |-> CommandContainers(SS)[jc]]
       ELSE [ok |-> FALSE, command |-> FALSE, con |-> NoContainer]

\* SpaceSystem.get_parameter(name).parameterTypeRef
GetParameter(SS, name) ==
    LET j == IndexOf(SS.parameter, name)
    IN IF j = 0 THEN [ok |-> FALSE, parameterTypeRef |-> ""]
       ELSE [ok |-> TRUE, parameterTypeRef |-> SS.parameter[j].parameterTypeRef]

NoIndex == [fixed |-> TRUE, value |-> 0, ref |-> ""]

NoType ==
    [name |-> "", kind |-> "integer", sizeInBits |-> 0, signed |-> FALSE,
     sizeRef |-> "", arrayTypeRef |-> "", startingIndex |-> NoIndex,
     endingIndex |-> NoIndex,
     zeroStringValue |-> <<"F", "a", "l", "s", "e">>,
     oneStringValue |-> <<"T", "r", "u", "e">>, terminationChar |-> <<>>,
     term |-> <<>>, unit |-> 1]

\* SpaceSystem.get_entry_type: the type of that name, and for an array type
\* its element type, bound on the way.
GetEntryType(SS, name) ==
    LET j == IndexOf(SS.types, name)
    IN IF j = 0 THEN [ok |-> FALSE, type |-> NoType, item |-> NoType]
       ELSE IF SS.types[j].kind # "array"
       THEN [ok |-> TRUE, type |-> SS.types[j], item |-> NoType]
       ELSE LET i == IndexOf(SS.types, SS.types[j].arrayTypeRef)
            IN IF i = 0 THEN [ok |-> FALSE, type |-> NoType, item |-> NoType]
               ELSE [ok |-> TRUE, type |-> SS.types[j], item |-> SS.types[i]]

\* The MetaCommand or SequenceContainer a message type names.
IsCommand(mt) == mt.set = "cmd"

MessageTypes(SS) ==
    {[set |-> "seq", name |-> SS.sequenceContainer[j].name] : j \in 1..Len(SS.sequenceContainer)}
    \cup {[set |-> "cmd", name |-> SS.metaCommand[j].name] : j \in 1..Len(SS.metaCommand)}

TypeObject(SS, mt) ==
    IF IsCommand(mt) THEN SS.metaCommand[IndexOf(SS.metaCommand, mt.name)]
    ELSE SS.sequenceContainer[IndexOf(SS.sequenceContainer, mt.name)]

IsAbstract(SS, mt) == TypeObject(SS, mt).abstract

\* A fault of FindInheritors: every inheritor is listed twice.
FindInheritorsTwice(SS, mt) ==
    LET match == IF IsCommand(mt) THEN TypeObject(SS, mt).commandContainer.name
                 ELSE mt.name
        scs == SelectSeq(SS.sequenceContainer,
                         LAMBDA sc : sc.baseContainer.containerRef # ""
                                     /\ sc.baseContainer.containerRef = match)
        mcs == SelectSeq(SS.metaCommand,
                         LAMBDA mc : mc.commandContainer.baseContainer.containerRef # ""
                                     /\ mc.commandContainer.baseContainer.containerRef = match)
    IN [j \in 1..Len(scs) |-> [set |-> "seq", name |-> scs[j].name]]
       \o [j \in 1..Len(mcs) |-> [set |-> "cmd", name |-> mcs[j].name]]
       \o [j \in 1..Len(scs) |-> [set |-> "seq", name |-> scs[j].name]]
       \o [j \in 1..Len(mcs) |-> [set |-> "cmd", name |-> mcs[j].name]]

\* SpaceSystem.find_inheritors: the sequence containers, then the meta-commands,
\* whose base container is the container of the message type.
FindInheritors(SS, mt) ==
    LET match == IF IsCommand(mt) THEN TypeObject(SS, mt).commandContainer.name
                 ELSE mt.name
        scs == SelectSeq(SS.sequenceContainer,
                         LAMBDA sc : sc.baseContainer.containerRef # ""
                                     /\ sc.baseContainer.containerRef = match)
        mcs == SelectSeq(SS.metaCommand,
                         LAMBDA mc : mc.commandContainer.baseContainer.containerRef # ""
                                     /\ mc.commandContainer.baseContainer.containerRef = match)
    IN [j \in 1..Len(scs) |-> [set |-> "seq", name |-> scs[j].name]]
       \o [j \in 1..Len(mcs) |-> [set |-> "cmd", name |-> mcs[j].name]]

\* FixedValueEntry.value: the bits of the hex string, cut to the last sizeInBits.
RECURSIVE HexBits(_)
HexBits(h) == IF h = <<>> THEN <<>> ELSE ToBits(h[1], 4) \o HexBits(Tail(h))

FixedValue(ent) == LastBits(HexBits(ent.binaryValue), ent.sizeInBits)

-----------------------------------------------------------------------------
\* _build_entry_plan.  A plan is a sequence of [ent, conds]; conds = <<>>
\* stands for None.  The result is [ok, err, plan, restrictions]; the fuel
\* counts the containers visited, and running out of it stands for a walk
\* that does not end.

PlanError(e) == [ok |-> FALSE, err |-> e, plan |-> <<>>, restrictions |-> <<>>]

PlanOf(plan, restrictions) ==
    [ok |-> TRUE, err |-> "", plan |-> plan, restrictions |-> restrictions]

Unconditional(entries) == [j \in 1..Len(entries) |-> [ent |-> entries[j], conds |-> <<>>]]

RECURSIVE Repeat(_, _)
Repeat(l, n) == IF n <= 0 THEN <<>> ELSE l \o Repeat(l, n - 1)

\* A fault of Inline: the conditions an inlined entry already has are put
\* before those of the ContainerRefEntry.
InlineInnerFirst(ent, emb, rest) ==
    IF ~emb.ok THEN emb
    ELSE IF ~rest.ok THEN rest
    ELSE PlanOf([j \in 1..Len(emb.plan) |->
                   [ent |-> emb.plan[j].ent,
                    conds |-> emb.plan[j].conds \o ent.includeCondition]] \o rest.plan,
                Repeat(emb.restrictions, Len(emb.plan)) \o rest.restrictions)

\* new_plan.append((embedded_entry, include_conditions)) for each entry of the
\* embedded plan, and new_restrictions + embedded_restrictions once for each.
Inline(ent, emb, rest) ==
    IF ~emb.ok THEN emb
    ELSE IF ~rest.ok THEN rest
    ELSE PlanOf([j \in 1..Len(emb.plan) |->
                   [ent |-> emb.plan[j].ent,
                    conds |-> ent.includeCondition \o emb.plan[j].conds]] \o rest.plan,
                Repeat(emb.restrictions, Len(emb.plan)) \o rest.restrictions)

\* new_plan.append((ent, None))
Keep(ent, rest) ==
    IF ~rest.ok THEN rest
    ELSE PlanOf(<<[ent |-> ent, conds |-> <<>>]>> \o rest.plan, rest.restrictions)

RECURSIVE FlattenEntries(_, _, _)
RECURSIVE SequenceChain(_, _, _, _, _)

\* self._build_entry_plan(embedded_con) of a ContainerRefEntry
EmbeddedPlan(SS, got, fuel) ==
    IF got.ok THEN SequenceChain(SS, got.con, <<>>, <<>>, fuel - 1)
    ELSE PlanError("unknown")

\* The loop over con.entryList of the sequence-container chain: a
\* ContainerRefEntry is replaced by the plan of the container it names.
FlattenEntries(SS, entries, fuel) ==
    IF entries = <<>> THEN PlanOf(<<>>, <<>>)
    ELSE IF entries[1].kind = "container"
    THEN Inline(entries[1],
                EmbeddedPlan(SS, GetSequenceContainer(SS, entries[1].ref), fuel),
                FlattenEntries(SS, Tail(entries), fuel))
    ELSE Keep(entries[1], FlattenEntries(SS, Tail(entries), fuel))

\* con = self.space_system.get_container(next_con_ref), and the loop again
SequenceNext(SS, next, plan, restrictions, fuel) ==
    IF ~next.ok THEN PlanError("unknown")
    ELSE SequenceChain(SS, next.con, plan, restrictions, fuel - 1)

\* A fault of SequenceStep: the entries of a container are put after those
\* of the containers that inherit from it.
SequenceStepAppend(SS, con, flat, plan, restrictions, fuel) ==
    IF ~flat.ok THEN flat
    ELSE IF con.baseContainer.containerRef = ""
    THEN PlanOf(plan \o flat.plan, flat.restrictions \o restrictions)
    ELSE SequenceNext(SS, GetContainer(SS, con.baseContainer.containerRef),
                      plan \o flat.plan,
                      flat.restrictions \o restrictions
                        \o con.baseContainer.restrictionCriteria, fuel)

\* One turn of the second loop, the entries of con flattened into flat.
SequenceStep(SS, con, flat, plan, restrictions, fuel) ==
    IF ~flat.ok THEN flat
    ELSE IF con.baseContainer.containerRef = ""
    THEN PlanOf(flat.plan \o plan, flat.restrictions \o restrictions)
    ELSE SequenceNext(SS, GetContainer(SS, con.baseContainer.containerRef),
                      flat.plan \o plan,
                      flat.restrictions \o restrictions
                          \o con.baseContainer.restrictionCriteria,
                      fuel)

\* The second loop of _build_entry_plan, from container con on.
SequenceChain(SS, con, plan, restrictions, fuel) ==
    IF fuel <= 0 THEN PlanError("diverges")
    ELSE SequenceStep(SS, con, FlattenEntries(SS, con.entryList, fuel), plan,
                      restrictions, fuel)

RECURSIVE CommandChain(_, _, _, _, _)

\* con = self.space_system.get_container(next_con_ref): the first loop goes
\* on with a CommandContainer, and hands over to the second loop otherwise.
CommandNext(SS, next, plan, restrictions, fuel) ==
    IF ~next.ok THEN PlanError("unknown")
    ELSE IF next.command THEN CommandChain(SS, next.con, plan, restrictions, fuel - 1)
    ELSE SequenceChain(SS, next.con, plan, restrictions, fuel - 1)

\* The first loop of _build_entry_plan, along the CommandContainers.
CommandChain(SS, con, plan, restrictions, fuel) ==
    IF fuel <= 0 THEN PlanError("diverges")
    ELSE IF con.baseContainer.containerRef = ""
    THEN PlanOf(Unconditional(con.entryList) \o plan, restrictions)
    ELSE CommandNext(SS, GetContainer(SS, con.baseContainer.containerRef),
                     Unconditional(con.entryList) \o plan,
                     restrictions \o con.baseContainer.restrictionCriteria, fuel)

BuildEntryPlan(SS, mt) ==
    IF IsCommand(mt)
    THEN CommandChain(SS, TypeObject(SS, mt).commandContainer, <<>>, <<>>, MaxChain)
    ELSE SequenceChain(SS, TypeObject(SS, mt), <<>>, <<>>, MaxChain)

\* The argument-type index of encode and _decode_message, built by walking
\* baseMetaCommand upwards; the walk itself fails on an unknown MetaCommand.
RECURSIVE ArgIndexError(_, _, _)

ArgIndexUp(SS, base, fuel) ==
    IF ~base.ok THEN "unknown" ELSE ArgIndexError(SS, base.j, fuel - 1)

ArgIndexError(SS, j, fuel) ==
    IF fuel <= 0 THEN "diverges"
    ELSE IF SS.metaCommand[j].baseMetaCommand = "" THEN ""
    ELSE ArgIndexUp(SS, GetMetaCommand(SS, SS.metaCommand[j].baseMetaCommand), fuel)

\* The error of building the index for message type mt ("" when none).
ArgIndex(SS, mt) ==
    IF IsCommand(mt) THEN ArgIndexError(SS, IndexOf(SS.metaCommand, mt.name), MaxChain)
    ELSE ""

\* arg_type_idx[name] of a walk that ended: the arguments of the meta-command
\* and of its base meta-commands, a base overriding those that inherit from it.
RECURSIVE ArgTypeRef(_, _, _)

ArgOwn(own, args) ==
    IF own = 0 THEN [ok |-> FALSE, typeRef |-> ""]
    ELSE [ok |-> TRUE, typeRef |-> args[own].argumentTypeRef]

ArgPick(up, mine) == IF up.ok THEN up ELSE mine

ArgTypeRef(SS, j, name) ==
    IF SS.metaCommand[j].baseMetaCommand = ""
    THEN ArgOwn(IndexOf(SS.metaCommand[j].argumentList, name),
                SS.metaCommand[j].argumentList)
    ELSE ArgPick(ArgTypeRef(SS, GetMetaCommand(SS, SS.metaCommand[j].baseMetaCommand).j,
                            name),
                 ArgOwn(IndexOf(SS.metaCommand[j].argumentList, name),
                        SS.metaCommand[j].argumentList))

-----------------------------------------------------------------------------
\* What encode and _decode_message share

\* conditions_met: [ok, err, met].  The three assertions of a comparison come
\* first, then the record is read (KeyError when the field is absent); the
\* first comparison that does not hold ends the loop.
RECURSIVE ConditionsMetAnyOperator(_, _)

\* A fault of ConditionsMet: the three assertions are left out, and every
\* comparison is evaluated as an equality.
ConditionsMetAnyOperator(conds, entries) ==
    IF conds = <<>> THEN [ok |-> TRUE, err |-> "", met |-> TRUE]
    ELSE IF conds[1].parameterRef \notin DOMAIN entries
    THEN [ok |-> FALSE, err |-> "key", met |-> FALSE]
    ELSE IF Str(entries[conds[1].parameterRef]) # conds[1].value
    THEN [ok |-> TRUE, err |-> "", met |-> FALSE]
    ELSE ConditionsMetAnyOperator(Tail(conds), entries)

RECURSIVE ConditionsMetNative(_, _)

\* A fault of ConditionsMet: the record value is compared as it is, not its
\* str(), so that no decoded or given value equals a comparison's string.
ConditionsMetNative(conds, entries) ==
    IF conds = <<>> THEN [ok |-> TRUE, err |-> "", met |-> TRUE]
    ELSE IF conds[1].comparisonOperator # "==" \/ conds[1].instance # 0
            \/ ~conds[1].useCalibratedValue
    THEN [ok |-> FALSE, err |-> "assert", met |-> FALSE]
    ELSE IF conds[1].parameterRef \notin DOMAIN entries
    THEN [ok |-> FALSE, err |-> "key", met |-> FALSE]
    ELSE [ok |-> TRUE, err |-> "", met |-> FALSE]

RECURSIVE ConditionsMet(_, _)
ConditionsMet(conds, entries) ==
    IF conds = <<>> THEN [ok |-> TRUE, err |-> "", met |-> TRUE]
    ELSE IF conds[1].comparisonOperator # "==" \/ conds[1].instance # 0
            \/ ~conds[1].useCalibratedValue
    THEN [ok |-> FALSE, err |-> "assert", met |-> FALSE]
    ELSE IF conds[1].parameterRef \notin DOMAIN entries
    THEN [ok |-> FALSE, err |-> "key", met |-> FALSE]
    ELSE IF Str(entries[conds[1].parameterRef]) # conds[1].value
    THEN [ok |-> TRUE, err |-> "", met |-> FALSE]
    ELSE ConditionsMet(Tail(conds), entries)

TypeName(ok, err, typeRef) == [ok |-> ok, err |-> IF ok THEN "" ELSE err, typeRef |-> typeRef]

ArgName(a) == TypeName(a.ok, "key", a.typeRef)

ParName(q) == TypeName(q.ok, "unknown", q.parameterTypeRef)

\* The name of the type of a parameter or argument entry: [ok, err, typeRef].
\* arg_type_idx is empty unless the message type is a MetaCommand.
EntryTypeName(SS, mt, ent) ==
    IF ent.kind = "argument"
    THEN IF IsCommand(mt)
         THEN ArgName(ArgTypeRef(SS, IndexOf(SS.metaCommand, mt.name), ent.ref))
         ELSE TypeName(FALSE, "key", "")
    ELSE ParName(GetParameter(SS, ent.ref))

\* ent_type.data_encoding.size(msg.entries)
DataSize(et, entries) ==
    CASE et.type.kind = "binary" -> BinarySize(et.type, entries)
      [] et.type.kind = "array" -> ArraySize(et.type, et.item, entries)
      [] et.type.kind = "string" -> StringSize(et.type)
      [] OTHER -> [ok |-> TRUE, err |-> "", n |-> et.type.sizeInBits]

\* ent_type.data_encoding.encode(ent_value).  BinaryDataEncoding.encode is the
\* identity; what it returns must be iterable as bits when the encoded
\* entries are chained into the bitarray.
DataEncode(et, v) ==
    CASE et.type.kind = "binary" ->
           IF v.k \in {"bits", "list"} /\ \A j \in 1..Len(v.s) : v.s[j] \in Bit
           THEN [ok |-> TRUE, err |-> "", bits |-> v.s]
           ELSE [ok |-> FALSE, err |-> "type", bits |-> <<>>]
      [] et.type.kind = "array" ->
           IF v.k \in {"bits", "list"} THEN ArrayEncode(et.item, v.s)
           ELSE [ok |-> FALSE, err |-> "type", bits |-> <<>>]
      [] et.type.kind = "boolean" -> BooleanEncode(et.type, v)
      [] et.type.kind = "string" -> StringEncode(et.type, v)
      [] OTHER -> IntegerEncode(et.type, v)

\* ent_type.data_encoding.decode(encoded_entry[, msg.entries])
DataDecode(et, b, entries) ==
    CASE et.type.kind = "binary" -> [ok |-> TRUE, err |-> "", v |-> BitsV(b)]
      [] et.type.kind = "array" -> ArrayDecode(et.type, et.item, b, entries)
      [] et.type.kind = "boolean" -> BooleanDecode(et.type, b)
      [] et.type.kind = "string" -> StringDecode(et.type, b)
      [] OTHER -> IntegerDecode(et.type, b)

-----------------------------------------------------------------------------
\* SpaceSystemEncoder.encode

\* msg.entries[comp.parameterRef] = int(comp.value), after the assertions
RECURSIVE ApplyRestrictions(_, _)

\* A fault of ApplyOne: the value is written only where the caller gave none.
ApplyOneAbsent(restrictions, entries, val) ==
    IF ~val.ok THEN [ok |-> FALSE, err |-> "value", entries |-> entries]
    ELSE ApplyRestrictions(Tail(restrictions),
                           IF restrictions[1].parameterRef \in DOMAIN entries THEN entries
                           ELSE SetEntry(entries, restrictions[1].parameterRef, IntV(val.v)))

ApplyOne(restrictions, entries, val) ==
    IF ~val.ok THEN [ok |-> FALSE, err |-> "value", entries |-> entries]
    ELSE ApplyRestrictions(Tail(restrictions),
                           SetEntry(entries, restrictions[1].parameterRef, IntV(val.v)))

\* The loop over the restrictions: [ok, err, entries], entries being the
\* caller's record as the loop leaves it, also when it raises.
ApplyRestrictions(restrictions, entries) ==
    IF restrictions = <<>> THEN [ok |-> TRUE, err |-> "", entries |-> entries]
    ELSE IF restrictions[1].comparisonOperator # "==" \/ restrictions[1].instance # 0
            \/ ~restrictions[1].useCalibratedValue
    THEN [ok |-> FALSE, err |-> "assert", entries |-> entries]
    ELSE ApplyOne(restrictions, entries, PyInt(restrictions[1].value))

NoBits(e) == [ok |-> FALSE, err |-> e, bits |-> <<>>]

\* ent_value = msg.entries[ent_name], encoded by the data encoding of ent_type
EncodeValue(et, ent, entries) ==
    IF ~et.ok THEN NoBits("unknown")
    ELSE IF ent.ref \notin DOMAIN entries THEN NoBits("key")
    ELSE DataEncode(et, entries[ent.ref])

\* ent_type = self.space_system.get_entry_type(ent_type_name)
EncodeTyped(SS, tn, ent, entries) ==
    IF ~tn.ok THEN NoBits(tn.err)
    ELSE EncodeValue(GetEntryType(SS, tn.typeRef), ent, entries)

\* The body of the loop over the plan for an entry whose conditions are met.
EncodeEntry(SS, mt, ent, entries) ==
    CASE ent.kind \in {"argument", "parameter"} ->
           EncodeTyped(SS, EntryTypeName(SS, mt, ent), ent, entries)
      [] ent.kind = "fixed" -> [ok |-> TRUE, err |-> "", bits |-> FixedValue(ent)]
      [] OTHER -> NoBits("entry")

NoSegs(e) == [ok |-> FALSE, err |-> e, segs |-> <<>>]

\* encoded_entries.append(...), and the rest of the loop
AppendEntry(ent, one, rest) ==
    IF ~one.ok THEN NoSegs(one.err)
    ELSE IF ~rest.ok THEN rest
    ELSE [rest EXCEPT !.segs = <<[name |-> ent.ref, bits |-> one.bits]>> \o @]

RECURSIVE EncodePlan(_, _, _, _)

\* if conds and not conditions_met(conds): continue
EncodeIf(SS, mt, plan, entries, met) ==
    IF ~met.ok THEN NoSegs(met.err)
    ELSE IF ~met.met THEN EncodePlan(SS, mt, Tail(plan), entries)
    ELSE AppendEntry(plan[1].ent, EncodeEntry(SS, mt, plan[1].ent, entries),
                     EncodePlan(SS, mt, Tail(plan), entries))

\* The loop over the plan: [ok, err, segs], one segment [name, bits] for each
\* entry that was not skipped, in plan order.
EncodePlan(SS, mt, plan, entries) ==
    IF plan = <<>> THEN [ok |-> TRUE, err |-> "", segs |-> <<>>]
    ELSE EncodeIf(SS, mt, plan, entries, ConditionsMet(plan[1].conds, entries))

RECURSIVE Concat(_)
Concat(segs) == IF segs = <<>> THEN <<>> ELSE segs[1].bits \o Concat(Tail(segs))

EncodeError(e, entries) ==
    [ok |-> FALSE, err |-> e, bits |-> <<>>, segs |-> <<>>, entries |-> entries]

\* encoded = bitarray(list(itertools.chain(*encoded_entries)))
EncodeResult(ep, entries) ==
    IF ~ep.ok THEN EncodeError(ep.err, entries)
    ELSE [ok |-> TRUE, err |-> "", bits |-> Concat(ep.segs), segs |-> ep.segs,
          entries |-> entries]

\* encode from the argument-type index on
EncodeEntries(SS, mt, plan, entries, ai) ==
    IF ai # "" THEN EncodeError(ai, entries)
    ELSE EncodeResult(EncodePlan(SS, mt, plan, entries), entries)

\* encode after the loop over the restrictions
EncodeRestricted(SS, mt, plan, ar) ==
    IF ~ar.ok THEN EncodeError(ar.err, ar.entries)
    ELSE EncodeEntries(SS, mt, plan, ar.entries, ArgIndex(SS, mt))

\* encode after _build_entry_plan
EncodePlanned(SS, m, bp) ==
    IF ~bp.ok THEN EncodeError(bp.err, m.entries)
    ELSE EncodeRestricted(SS, m.message_type, bp.plan,
                          ApplyRestrictions(bp.restrictions, m.entries))

\* encode(msg): [ok, err, bits, segs, entries]; entries is msg.entries after
\* the call, which the restrictions have been written into.
Encode(SS, m) == EncodePlanned(SS, m, BuildEntryPlan(SS, m.message_type))

-----------------------------------------------------------------------------
\* SpaceSystemEncoder._decode_message

\* restriction_idx[name]: the restrictions on that parameter, in list order.
RestrictionIdx(restrictions, name) ==
    SelectSeq(restrictions, LAMBDA comp : comp.parameterRef = name)

\* The state of the loop over the plan is [ok, err, entries, b, buf, aliased]:
\* b the local buffer, buf the buffer object the caller passed in, aliased
\* whether b still IS that object (pop_entry deletes from b in place; a
\* FixedValueEntry rebinds b to a new slice).

Fail(st, e) == [st EXCEPT !.ok = FALSE, !.err = e]

\* A fault of CheckRestrictions: a restriction that does not hold is let pass.
CheckNothing(st, chk) == IF ~chk.ok THEN Fail(st, chk.err) ELSE st

\* if ent_name in restriction_idx and not conditions_met(...): raise
CheckRestrictions(st, chk) ==
    IF ~chk.ok THEN Fail(st, chk.err)
    ELSE IF ~chk.met THEN Fail(st, "restriction")
    ELSE st

\* The restrictions a decoded entry is checked against: those on its name
\* when it is a parameter entry, none when it is an argument entry.
Checked(ent, restrictions) ==
    IF ent.kind = "parameter" THEN RestrictionIdx(restrictions, ent.ref) ELSE <<>>

\* msg.entries[ent_name] = decoded value, then the check of the restrictions
StoreEntry(ent, restrictions, st, dec) ==
    IF ~dec.ok THEN Fail(st, dec.err)
    ELSE CheckRestrictions(
             [st EXCEPT !.entries = SetEntry(@, ent.ref, dec.v)],
             ConditionsMet(Checked(ent, restrictions),
                           SetEntry(st.entries, ent.ref, dec.v)))

\* encoded_entry = b[:encoded_bit_length]; del b[:encoded_bit_length]; decode
SliceEntry(et, ent, restrictions, st, sz) ==
    IF ~sz.ok THEN Fail(st, sz.err)
    ELSE StoreEntry(ent, restrictions,
                    [st EXCEPT !.b = SliceFrom(st.b, sz.n),
                               !.buf = IF st.aliased THEN SliceFrom(st.b, sz.n) ELSE @],
                    DataDecode(et, SliceTo(st.b, sz.n), st.entries))

\* A fault of SizeEntry: the size is computed without the record decoded so
\* far.
SizeEntryBlind(et, ent, restrictions, st) ==
    IF ~et.ok THEN Fail(st, "unknown")
    ELSE SliceEntry(et, ent, restrictions, st, DataSize(et, NoEntries))

\* encoded_bit_length = ent_type.data_encoding.size(msg.entries)
SizeEntry(et, ent, restrictions, st) ==
    IF ~et.ok THEN Fail(st, "unknown")
    ELSE SliceEntry(et, ent, restrictions, st, DataSize(et, st.entries))

\* ent_type = self.space_system.get_entry_type(ent_type_name)
PopTyped(SS, tn, ent, restrictions, st) ==
    IF ~tn.ok THEN Fail(st, tn.err)
    ELSE SizeEntry(GetEntryType(SS, tn.typeRef), ent, restrictions, st)

\* pop_entry, and for a parameter entry the check of its restrictions.
PopEntry(SS, mt, ent, restrictions, st) ==
    PopTyped(SS, EntryTypeName(SS, mt, ent), ent, restrictions, st)

\* encoded_entry, b = b[:ent.sizeInBits], b[ent.sizeInBits:]
PopFixed(ent, st) ==
    IF SliceTo(st.b, ent.sizeInBits) # FixedValue(ent)
    THEN Fail([st EXCEPT !.b = SliceFrom(st.b, ent.sizeInBits), !.aliased = FALSE],
              "fixed")
    ELSE [st EXCEPT !.b = SliceFrom(st.b, ent.sizeInBits), !.aliased = FALSE]

\* The body of the loop over the plan, the conditions of the entry evaluated.
DecodeEntry(SS, mt, ent, restrictions, st, met) ==
    IF ~met.ok THEN Fail(st, met.err)
    ELSE IF ~met.met THEN st
    ELSE CASE ent.kind \in {"argument", "parameter"} ->
                PopEntry(SS, mt, ent, restrictions, st)
           [] ent.kind = "fixed" -> PopFixed(ent, st)
           [] OTHER -> Fail(st, "entry")

RECURSIVE DecodePlanLate(_, _, _, _, _)

\* A fault of DecodePlan: a restriction that does not hold is only reported
\* when the loop over the plan ends, the later entries consumed before it.
DecodePlanLate(SS, mt, plan, restrictions, st) ==
    IF plan = <<>> \/ (~st.ok /\ st.err # "restriction") THEN st
    ELSE LET nx == DecodeEntry(SS, mt, plan[1].ent, restrictions,
                               [st EXCEPT !.ok = TRUE],
                               ConditionsMet(plan[1].conds, st.entries))
         IN DecodePlanLate(SS, mt, Tail(plan), restrictions,
                           IF ~st.ok /\ nx.ok THEN Fail(nx, "restriction") ELSE nx)

RECURSIVE DecodePlan(_, _, _, _, _)
DecodePlan(SS, mt, plan, restrictions, st) ==
    IF plan = <<>> \/ ~st.ok THEN st
    ELSE DecodePlan(SS, mt, Tail(plan), restrictions,
                    DecodeEntry(SS, mt, plan[1].ent, restrictions, st,
                                ConditionsMet(plan[1].conds, st.entries)))

\* A fault of Fresh: the record does not start empty but holds a field left
\* by an earlier decode.
FreshStale(b) ==
    [ok |-> TRUE, err |-> "", entries |-> SetEntry(NoEntries, "Stale", IntV(0)),
     b |-> b, buf |-> b, aliased |-> TRUE]

\* msg = Message(message_type=message_type, entries=dict()), b untouched.
Fresh(b) ==
    [ok |-> TRUE, err |-> "", entries |-> NoEntries, b |-> b, buf |-> b, aliased |-> TRUE]

\* _decode_message after the argument-type index
DecodeEntries(SS, mt, bp, b, ai) ==
    IF ai # "" THEN Fail(Fresh(b), ai)
    ELSE DecodePlan(SS, mt, bp.plan, bp.restrictions, Fresh(b))

\* _decode_message after _build_entry_plan
DecodePlanned(SS, mt, bp, b) ==
    IF ~bp.ok THEN Fail(Fresh(b), bp.err)
    ELSE DecodeEntries(SS, mt, bp, b, ArgIndex(SS, mt))

\* _decode_message(message_type, b): [ok, err, entries, b, buf, aliased]; b is
\* the remaining bits it returns, buf what is left in the caller's buffer.
DecodeMessage(SS, mt, b) == DecodePlanned(SS, mt, BuildEntryPlan(SS, mt), b)

-----------------------------------------------------------------------------
\* Dictionaries.  Dispatch has the shape of the dictionary TestUnittest loads
\* (an abstract MessageBase, abstract reply and command bases under it, and
\* concrete messages told apart by restrictions, one of them adding no field
\* of its own); Header that of the dictionary TestCCSDS_660x1g2 loads (an
\* abstract header with a conditionally included secondary header, and a
\* command under it with a fixed value and a boolean argument); Sized has a
\* binary field and an array field whose sizes other fields give, the array
\* followed by one more field; Loose holds what a document may also say: an
\* unknown parameter, an unsupported operator, two restrictions on one
\* parameter, two inheritors told apart by their length only, a restriction on
\* a parameter that is in no container, a concrete container that has an
\* inheritor, an include condition whose second comparison has an unsupported
\* operator, a container included on a condition by a container that is
\* itself included on a condition, a container included on a condition over
\* a field of another container that is itself included on a condition.
\* Fields are one to three bits wide.

Cmp(ref, op, value) ==
    [parameterRef |-> ref, comparisonOperator |-> op, value |-> value,
     instance |-> 0, useCalibratedValue |-> TRUE]

Par(ref) ==
    [kind |-> "parameter", ref |-> ref, includeCondition |-> <<>>,
     binaryValue |-> <<>>, sizeInBits |-> 0]

Arg(ref) == [Par(ref) EXCEPT !.kind = "argument"]

Ref(ref, cond) == [Par(ref) EXCEPT !.kind = "container", !.includeCondition = cond]

Fix(hex, n) == [Par("") EXCEPT !.kind = "fixed", !.binaryValue = hex, !.sizeInBits = n]

Base(ref, restrictions) == [containerRef |-> ref, restrictionCriteria |-> restrictions]

Container(name, abstract, entries, base) ==
    [name |-> name, abstract |-> abstract, entryList |-> entries, baseContainer |-> base]

MetaCommand(name, abstract, con, baseMeta, arguments) ==
    [name |-> name, abstract |-> abstract, commandContainer |-> con,
     baseMetaCommand |-> baseMeta, argumentList |-> arguments]

Parameter(name, typeRef) == [name |-> name, parameterTypeRef |-> typeRef]

Argument(name, typeRef) == [name |-> name, argumentTypeRef |-> typeRef]

IntegerType(name, n, signed) ==
    [NoType EXCEPT !.name = name, !.sizeInBits = n, !.signed = signed]

BooleanType(name) == [NoType EXCEPT !.name = name, !.kind = "boolean", !.sizeInBits = 1]

\* A string type of fixed size, UTF-8 (the default charset).
StringType(name, n, term) ==
    [NoType EXCEPT !.name = name, !.kind = "string", !.sizeInBits = n,
                   !.terminationChar = term]

BinaryType(name, ref) == [NoType EXCEPT !.name = name, !.kind = "binary", !.sizeRef = ref]

ArrayType(name, item, first, countRef) ==
    [NoType EXCEPT !.name = name, !.kind = "array", !.arrayTypeRef = item,
                   !.startingIndex = [fixed |-> TRUE, value |-> first, ref |-> ""],
                   !.endingIndex = [fixed |-> FALSE, value |-> 0, ref |-> countRef]]

Dispatch ==
    [sequenceContainer |-> <<
        Container("MessageBase", TRUE, <<Par("MessageType"), Par("MessageID")>>, NoBase),
        Container("ReplyBase", TRUE, <<>>,
                  Base("MessageBase", <<Cmp("MessageType", "==", <<"2">>)>>)),
        Container("Reply_Ping", FALSE, <<Par("Nonce")>>,
                  Base("ReplyBase", <<Cmp("MessageID", "==", <<"3">>)>>)),
        Container("Reply_Ack", FALSE, <<>>,
                  Base("ReplyBase", <<Cmp("MessageID", "==", <<"1">>)>>)) >>,
     metaCommand |-> <<
        MetaCommand("CommandBase", TRUE,
                    Container("CommandBaseContainer", FALSE, <<Par("Intermediate")>>,
                              Base("MessageBase", <<Cmp("MessageType", "==", <<"1">>)>>)),
                    "", <<>>),
        MetaCommand("Command_NOARG", FALSE,
                    Container("Command_NOARG_Container", FALSE, <<>>,
                              Base("CommandBaseContainer",
                                   <<Cmp("MessageID", "==", <<"2">>)>>)),
                    "CommandBase", <<>>),
        MetaCommand("Command_Ping", FALSE,
                    Container("Command_Ping_Container", FALSE, <<Arg("Nonce")>>,
                              Base("CommandBaseContainer",
                                   <<Cmp("MessageID", "==", <<"3">>)>>)),
                    "CommandBase", <<Argument("Nonce", "U1Arg")>>) >>,
     parameter |-> <<Parameter("MessageType", "U2"), Parameter("MessageID", "U2"),
                     Parameter("Intermediate", "U1"), Parameter("Nonce", "U2")>>,
     types |-> <<IntegerType("U2", 2, FALSE), IntegerType("U1", 1, FALSE),
                 IntegerType("U1Arg", 1, FALSE)>>]

Header ==
    [sequenceContainer |-> <<
        Container("Header", TRUE,
                  <<Par("ID"), Par("SecH"),
                    Ref("SecondaryHeader", <<Cmp("SecH", "==", <<"1">>)>>)>>, NoBase),
        Container("SecondaryHeader", FALSE, <<Par("Seconds")>>, NoBase) >>,
     metaCommand |-> <<
        MetaCommand("PWHTMR", FALSE,
                    Container("PWHTMR_Container", FALSE,
                              <<Fix(<<0, 2>>, 2), Arg("TimerStartStop")>>,
                              Base("Header", <<Cmp("ID", "==", <<"3">>)>>)),
                    "", <<Argument("TimerStartStop", "Switch")>>) >>,
     parameter |-> <<Parameter("ID", "U2"), Parameter("SecH", "U1"),
                     Parameter("Seconds", "S3")>>,
     types |-> <<IntegerType("U2", 2, FALSE), IntegerType("U1", 1, FALSE),
                 IntegerType("S3", 3, TRUE), BooleanType("Switch")>>]

Sized ==
    [sequenceContainer |-> <<
        Container("Packet", TRUE, <<Par("ID")>>, NoBase),
        Container("Status", FALSE, <<Par("Len"), Par("Blob")>>,
                  Base("Packet", <<Cmp("ID", "==", <<"1">>)>>)),
        Container("Samples", FALSE, <<Par("Count"), Par("Data"), Par("Check")>>,
                  Base("Packet", <<Cmp("ID", "==", <<"2">>)>>)) >>,
     metaCommand |-> <<>>,
     parameter |-> <<Parameter("ID", "U2"), Parameter("Len", "U2"),
                     Parameter("Blob", "Binary"), Parameter("Count", "U2"),
                     Parameter("Data", "Array"), Parameter("Check", "U1")>>,
     types |-> <<IntegerType("U2", 2, FALSE), IntegerType("U1", 1, FALSE),
                 BinaryType("Binary", "Len"), ArrayType("Array", "U1", 1, "Count")>>]

Loose ==
    [sequenceContainer |-> <<
        Container("Base", TRUE, <<Par("Kind")>>, NoBase),
        Container("BadRef", FALSE, <<Par("Missing")>>, Base("Base", <<>>)),
        Container("BadOp", FALSE, <<Par("Val")>>,
                  Base("Base", <<Cmp("Kind", "!=", <<"0">>)>>)),
        Container("Twice", FALSE, <<Par("Val")>>,
                  Base("Base", <<Cmp("Kind", "==", <<"1">>), Cmp("Kind", "==", <<"2">>)>>)),
        Container("Long", FALSE, <<Par("Extra"), Par("Val")>>,
                  Base("Base", <<Cmp("Kind", "==", <<"1">>)>>)),
        Container("Mid", FALSE, <<Par("Val")>>,
                  Base("Base", <<Cmp("Kind", "==", <<"1">>)>>)),
        Container("MidExt", FALSE, <<Par("Extra")>>, Base("Mid", <<>>)),
        Container("Ghost", FALSE, <<Par("Val")>>,
                  Base("Base", <<Cmp("Phantom", "==", <<"1">>)>>)),
        Container("Opt", FALSE,
                  <<Par("Val"),
                    Ref("Base", <<Cmp("Val", "==", <<"1">>), Cmp("Val", "!=", <<"0">>)>>)>>,
                  NoBase),
        Container("Nest", FALSE,
                  <<Par("Kind"), Ref("Inner", <<Cmp("Kind", "==", <<"1">>)>>)>>, NoBase),
        Container("Inner", FALSE,
                  <<Par("Val"), Ref("Leaf", <<Cmp("Val", "==", <<"2">>)>>)>>, NoBase),
        Container("Leaf", FALSE, <<Par("Extra")>>, NoBase),
        Container("Gap", FALSE,
                  <<Par("Kind"), Ref("Leaf", <<Cmp("Kind", "==", <<"1">>)>>),
                    Ref("Inner", <<Cmp("Extra", "==", <<"1">>)>>)>>, NoBase) >>,
     metaCommand |-> <<>>,
     parameter |-> <<Parameter("Kind", "U2"), Parameter("Val", "U2"),
                     Parameter("Extra", "U2")>>,
     types |-> <<IntegerType("U2", 2, FALSE)>>]

\* A malformed dictionary: the base-container links of Ring and RingBase
\* lead back to where they start.  Neither has entries or restriction
\* criteria, so that the planner's walk along the links leaves its lists as
\* they are.
Cyclic ==
    [sequenceContainer |-> <<
        Container("Plain", FALSE, <<Par("Kind")>>, NoBase),
        Container("RingBase", TRUE, <<>>, Base("Ring", <<>>)),
        Container("Ring", FALSE, <<>>, Base("RingBase", <<>>)) >>,
     metaCommand |-> <<>>,
     parameter |-> <<Parameter("Kind", "U2")>>,
     types |-> <<IntegerType("U2", 2, FALSE)>>]

Dictionaries == <<Dispatch, Header, Sized, Loose, Cyclic>>

-----------------------------------------------------------------------------
\* The records and buffers callers pass in

\* Longest bitarray or list a caller puts into a record field.
MaxItems == 2

RECURSIVE BitStrings(_)
BitStrings(n) ==
    IF n = 0 THEN {<<>>}
    ELSE {<<>>} \cup {<<x>> \o b : x \in Bit, b \in BitStrings(n - 1)}

\* The parameter and argument entries of a plan.
FieldEntries(plan) ==
    {plan[j].ent : j \in {i \in 1..Len(plan) :
                            plan[i].ent.kind \in {"parameter", "argument"}}}

\* The values a caller gives a field of that type.
FieldValues(et) ==
    CASE et.type.kind = "boolean" -> {BoolV(FALSE), BoolV(TRUE)}
      [] et.type.kind = "binary" -> {BitsV(b) : b \in BitStrings(MaxItems)}
      [] et.type.kind = "array" -> {ListV(b) : b \in BitStrings(MaxItems)}
      [] OTHER -> {IntV(n) : n \in -1..MaxVal}

\* The values a caller gives the field of a plan entry; an entry whose type
\* the dictionary does not resolve is given integers.
EntryValues(SS, tn) ==
    IF tn.ok THEN FieldValues(GetEntryType(SS, tn.typeRef)) ELSE FieldValues([type |-> NoType])

\* The records over the fields of a plan: each field absent or given a value.
RECURSIVE RecordsOver(_, _, _)
RecordsOver(SS, mt, ents) ==
    IF ents = {} THEN {NoEntries}
    ELSE {IF v = <<>> THEN r ELSE SetEntry(r, (CHOOSE x \in ents : TRUE).ref, v[1]) :
            r \in RecordsOver(SS, mt, ents \ {CHOOSE x \in ents : TRUE}),
            v \in {<<>>} \cup {<<w>> : w \in EntryValues(SS,
                                   EntryTypeName(SS, mt, CHOOSE x \in ents : TRUE))}}

Records(SS, mt) == RecordsOver(SS, mt, FieldEntries(BuildEntryPlan(SS, mt).plan))

\* mt and the message types mt is an inheritor of, directly or not.
RECURSIVE Descends(_, _, _, _)
Descends(SS, from, mt, fuel) ==
    \/ from = mt
    \/ /\ fuel > 0
       /\ \E inh \in {FindInheritors(SS, from)[j] : j \in 1..Len(FindInheritors(SS, from))} :
             Descends(SS, inh, mt, fuel - 1)

Ancestors(SS, mt) == {a \in MessageTypes(SS) : Descends(SS, a, mt, MaxChain)}

-----------------------------------------------------------------------------
\* The state machine: a caller encodes a record and may decode what encode
\* returned, or decodes a buffer of its own.  decode runs one call of
\* _decode_message, or one turn of its loop over the inheritors, per step;
\* stack holds its nested calls, innermost last.
\*
\*   ss       the dictionary in use (an index into Dictionaries)
\*   pc       "idle", "encoded" (encode has run), "decoding", "done", or
\*            "hung": the call is in a loop of the planner, or of the walk
\*            along baseMetaCommand, that has no end
\*   given    the entries of the caller's Message as the caller built them
\*   msg      the caller's Message, as encode leaves it
\*   encoded  what encode returned or raised
\*   arg      the caller's bitarray, as decode leaves it
\*   call     the arguments of decode, as they were passed
\*   ret      what decode returned or raised
\*   log      the decode attempts and how each ended, in order
\*   probe    a data encoding or calibrator used on its own (see below)

space_system == Dictionaries[ss]

NoMessageType == [set |-> "", name |-> ""]

NoCall == [message_type |-> NoMessageType, b |-> <<>>, require_concrete |-> FALSE]

NoEncoded == [ok |-> FALSE, err |-> "", bits |-> <<>>, segs |-> <<>>]

NoRet == [ok |-> FALSE, err |-> "", message_type |-> NoMessageType,
          entries |-> NoEntries, name |-> "", n_rem |-> 0]

Init ==
    /\ ss \in 1..Len(Dictionaries)
    /\ pc = "idle"
    /\ given = NoEntries
    /\ msg = [message_type |-> NoMessageType, entries |-> NoEntries]
    /\ encoded = NoEncoded
    /\ arg = <<>>
    /\ call = NoCall
    /\ stack = <<>>
    /\ ret = NoRet
    /\ log = <<>>
    /\ probe = [type |-> [ok |-> FALSE, type |-> NoType, item |-> NoType],
                next |-> "", hist |-> <<>>]

\* enc.encode(msg); a planner that does not come to an end leaves the call
\* running.
CallEncode ==
    /\ pc = "idle"
    /\ \E mt \in MessageTypes(space_system) : \E e \in Records(space_system, mt) :
         \E r \in {Encode(space_system, [message_type |-> mt, entries |-> e])} :
            /\ given' = e
            /\ msg' = [message_type |-> mt, entries |-> r.entries]
            /\ IF r.err = "diverges"
               THEN pc' = "hung" /\ UNCHANGED encoded
               ELSE /\ pc' = "encoded"
                    /\ encoded' = [ok |-> r.ok, err |-> r.err, bits |-> r.bits,
                                   segs |-> r.segs]
    /\ UNCHANGED <<ss, arg, call, stack, ret, log, probe>>

\* A frame of decode: its message type, bak (the copy of its input taken on
\* entry), where it is ("enter": before _decode_message; "loop": in the loop
\* over the inheritors), n_rem and the index of the next inheritor to try.
Frame(mt, b) ==
    [message_type |-> mt, bak |-> b, at |-> "enter", n_rem |-> 0, next |-> 1]

\* An entry of the log: a call of decode begins ("try"), returns ("ok") or
\* raises ("fail"), at that depth of the recursion.
Event(ev, mt, err, depth) == [ev |-> ev, message_type |-> mt, err |-> err, depth |-> depth]

\* enc.decode(message_type, b, require_concrete): the call itself.
BeginDecode(mt, b, rc) ==
    /\ arg' = b
    /\ call' = [message_type |-> mt, b |-> b, require_concrete |-> rc]
    /\ stack' = <<Frame(mt, b)>>
    /\ log' = <<Event("try", mt, "", 1)>>
    /\ pc' = "decoding"
    /\ UNCHANGED <<ss, given, msg, encoded, ret, probe>>

CallDecode ==
    \/ /\ pc = "idle"
       /\ \E mt \in MessageTypes(space_system), b \in BitStrings(MaxBits), rc \in BOOLEAN :
            BeginDecode(mt, b, rc)
    \/ /\ pc = "encoded"
       /\ encoded.ok
       /\ \E mt \in Ancestors(space_system, msg.message_type), rc \in BOOLEAN :
            BeginDecode(mt, encoded.bits, rc)

Top == stack[Len(stack)]

\* A fault of Raise: the exception of an attempt is not caught by the loop of
\* the call below, and reaches the caller of decode.
RaiseThrough(err, name, n_rem) ==
    /\ stack' = <<>>
    /\ log' = Append(log, Event("fail", Top.message_type, err, Len(stack)))
    /\ pc' = "done"
    /\ ret' = [NoRet EXCEPT !.err = err, !.name = name, !.n_rem = n_rem]

\* An exception leaves the innermost call: the call below it, which is in
\* its loop over the inheritors, catches it and goes on; with no call below,
\* the exception reaches the caller of decode.
Raise(err, name, n_rem) ==
    /\ stack' = SubSeq(stack, 1, Len(stack) - 1)
    /\ log' = Append(log, Event("fail", Top.message_type, err, Len(stack)))
    /\ IF Len(stack) = 1
       THEN /\ pc' = "done"
            /\ ret' = [NoRet EXCEPT !.err = err, !.name = name, !.n_rem = n_rem]
       ELSE UNCHANGED <<pc, ret>>

\* A fault of Return: the record is returned under the message type decode
\* was called with.
ReturnOutermost(entries) ==
    /\ stack' = <<>>
    /\ log' = Append(log, Event("ok", Top.message_type, "", Len(stack)))
    /\ pc' = "done"
    /\ ret' = [NoRet EXCEPT !.ok = TRUE, !.message_type = stack[1].message_type,
                            !.entries = entries]

\* return msg, through every "return self.decode(...)" below it.
Return(entries) ==
    /\ stack' = <<>>
    /\ log' = Append(log, Event("ok", Top.message_type, "", Len(stack)))
    /\ pc' = "done"
    /\ ret' = [NoRet EXCEPT !.ok = TRUE, !.message_type = Top.message_type,
                            !.entries = entries]

\* A fault of Accepts: whatever the first attempt decoded is returned.
AcceptsAny(mt, rem, rc) == TRUE

\* A fault of Accepts: the bits that remain are not looked at.
AcceptsRemainder(mt, rem, rc) == ~IsAbstract(space_system, mt) \/ ~rc

\* A fault of Accepts: require_concrete is not looked at.
AcceptsWhenEmpty(mt, rem, rc) == rem = <<>>

\* if not rem and (not message_type.abstract or not require_concrete)
Accepts(mt, rem, rc) == rem = <<>> /\ (~IsAbstract(space_system, mt) \/ ~rc)

\* A fault of Final: a non-abstract type with bits left goes on to its inheritors.
FinalNever(mt) == FALSE

\* if not message_type.abstract: raise
Final(mt) == ~IsAbstract(space_system, mt)

\* A fault of InheritorInput: the inheritor is handed the bits that remain.
InheritorRemainder(f) == SliceFrom(f.bak, Len(f.bak) - f.n_rem)

\* bak.copy(), the buffer decode passes to the inheritor it tries.
InheritorInput(f) == f.bak

\* decode from its entry to the loop over the inheritors; a planner that
\* does not come to an end leaves the call running.
DecodeBody ==
    /\ pc = "decoding"
    /\ Top.at = "enter"
    /\ \E dm \in {DecodeMessage(space_system, Top.message_type, Top.bak)} :
          /\ arg' = IF Len(stack) = 1 THEN dm.buf ELSE arg
          /\ IF dm.err = "diverges" THEN pc' = "hung" /\ UNCHANGED <<stack, ret, log>>
             ELSE IF ~dm.ok THEN Raise(dm.err, "", 0)
             ELSE IF Accepts(Top.message_type, dm.b, call.require_concrete)
             THEN Return(dm.entries)
             ELSE IF Final(Top.message_type)
             THEN Raise("remain", Top.message_type.name, Len(dm.b))
             ELSE /\ stack' = [stack EXCEPT ![Len(stack)].at = "loop",
                                            ![Len(stack)].n_rem = Len(dm.b)]
                  /\ UNCHANGED <<pc, ret, log>>
    /\ UNCHANGED <<ss, given, msg, encoded, call, probe>>

\* One turn of the loop: decode(inh, bak.copy(), require_concrete) begins.
TryInheritor ==
    /\ pc = "decoding"
    /\ Top.at = "loop"
    /\ Top.next <= Len(FindInheritors(space_system, Top.message_type))
    /\ \E inh \in {FindInheritors(space_system, Top.message_type)[Top.next]} :
          /\ stack' = Append([stack EXCEPT ![Len(stack)].next = @ + 1],
                             Frame(inh, InheritorInput(Top)))
          /\ log' = Append(log, Event("try", inh, "", Len(stack) + 1))
    /\ UNCHANGED <<ss, pc, given, msg, encoded, arg, call, ret, probe>>

\* The loop ran out of inheritors.
NoInheritor ==
    /\ pc = "decoding"
    /\ Top.at = "loop"
    /\ Top.next > Len(FindInheritors(space_system, Top.message_type))
    /\ Raise("noinheritor", Top.message_type.name, Top.n_rem)
    /\ UNCHANGED <<ss, given, msg, encoded, arg, call, probe>>

Next == CallEncode \/ CallDecode \/ DecodeBody \/ TryInheritor \/ NoInheritor

Spec == Init /\ [][Next]_vars

\* decode is straight-line code run by its caller: once called it goes on
\* taking its steps for as long as it has one to take.  The last conjunct is
\* WF_vars(DecodeBody) with ENABLED <<DecodeBody>>_vars written out: it is
\* DecodeBody's guard, every branch of DecodeBody giving a next state that
\* differs in stack, log or pc.
Running ==
    /\ Spec
    /\ WF_vars(TryInheritor \/ NoInheritor)
    /\ \/ []<>(~(pc = "decoding" /\ Top.at = "enter"))
       \/ []<><<DecodeBody>>_vars

-----------------------------------------------------------------------------
\* The data encodings on their own: a caller takes one type, hands its data
\* encoding a value (encode) or a bit string (decode) and feeds the result
\* to the opposite operation; or takes a calibrator and does the same with
\* calibrate and uncalibrate.  probe = [type, next, hist]: the type as
\* get_entry_type returns it, the operation to call next ("" when there is
\* none) and what was handed in and returned so far, each [ok, err, v].

\* Widest integer encoding called on its own.
MaxWidth == 9
\* Largest raw value and largest calibrated value (in units of 1/unit) a
\* calibrator is handed, in magnitude.
MaxRaw == 12
MaxCal == 300
\* Largest string buffer, in bytes, and longest string, in characters.
MaxBuf == 3
MaxStr == 3

\* The strings of at most n characters over a set of characters.
RECURSIVE Texts(_, _)
Texts(chars, n) ==
    IF n = 0 THEN {<<>>}
    ELSE {<<>>} \cup {<<c>> \o t : c \in chars, t \in Texts(chars, n - 1)}

\* What a type's data encoding is handed first: the values it is asked to
\* encode (for an integer, those just outside its range included; for a
\* boolean, its labels; for a string, texts with multi-byte, NUL and line-end
\* characters) and the bit strings it is asked to decode (for a string, the
\* UTF-8 bytes of a text cut or zero-padded to the buffer).  A calibrator is
\* handed raw integers to calibrate and floats to uncalibrate.
Probes(t, op) ==
    LET Start(v) ==
          [type |-> [ok |-> TRUE, type |-> t, item |-> NoType], next |-> op,
           hist |-> <<[ok |-> TRUE, err |-> "", v |-> v]>>]
        n == t.sizeInBits
        Strings == {StrV(x) : x \in Texts({"A", "U+00E9", "U+0000", "U+000D", "U+000A"},
                                          MaxStr)}
    IN CASE t.kind = "polynomial" ->
              IF op = "calibrate" THEN {Start(IntV(x)) : x \in (-MaxRaw)..MaxRaw}
              ELSE IF op = "uncalibrate" THEN {Start(FloatV(y)) : y \in (-MaxCal)..MaxCal}
              ELSE {}
         [] op \in {"calibrate", "uncalibrate"} -> {}
         [] op = "decode" /\ t.kind = "string" ->
              {Start(BitsV(StringEncode([t EXCEPT !.terminationChar = <<>>], v).bits)) :
                 v \in Strings}
         [] op = "decode" ->
              {Start(BitsV(ToBits(u, n))) : u \in 0..(Pow2(n) - 1)}
         [] t.kind = "integer" ->
              {Start(IntV(v)) : v \in (-Pow2(n - 1) - 1)..Pow2(n)}
         [] t.kind = "boolean" ->
              {Start(v) :
                 v \in {BoolV(FALSE), BoolV(TRUE), IntV(0), IntV(1), IntV(2),
                        StrV(t.zeroStringValue), StrV(t.oneStringValue), StrV(<<"1">>)}}
         [] OTHER ->
              {Start(v) : v \in Strings \cup {IntV(-1)}}

\* One integer type of every width and signedness, boolean types with the
\* default and with custom labels over one bit and over a byte, string
\* types of every size that is a multiple of four bits, without termination
\* and with a one-byte and a two-byte termination, and linear calibrators in
\* units of 1/20 with c0 of 0, 10 and -2.5 and c1 of 0.1, 1, 2, -0.5, 100
\* and 0.
CodecInit ==
    /\ ss = 1
    /\ pc = "idle"
    /\ given = NoEntries
    /\ msg = [message_type |-> NoMessageType, entries |-> NoEntries]
    /\ encoded = NoEncoded
    /\ arg = <<>>
    /\ call = NoCall
    /\ stack = <<>>
    /\ ret = NoRet
    /\ log = <<>>
    /\ \E t \in {IntegerType("I", n, sg) : n \in 1..MaxWidth, sg \in BOOLEAN}
               \cup {[BooleanType("B") EXCEPT !.zeroStringValue = l[1],
                                              !.oneStringValue = l[2],
                                              !.sizeInBits = n] :
                       l \in {<<NoType.zeroStringValue, NoType.oneStringValue>>,
                              <<<<"O", "F", "F">>, <<"O", "N">>>>},
                       n \in {1, 8}}
               \cup {StringType("S", 4 * n, term) :
                       n \in 0..(2 * MaxBuf),
                       term \in {<<>>, <<<<0, 0>>>>, <<<<0, 13, 0, 10>>>>}}
               \cup {[NoType EXCEPT !.name = "P", !.kind = "polynomial",
                                    !.term = <<c0, c1>>, !.unit = 20] :
                       c0 \in {0, 200, -50}, c1 \in {2, 20, 40, -10, 2000, 0}} :
         \E op \in {"encode", "decode", "calibrate", "uncalibrate"} :
            probe \in Probes(t, op)

\* data_encoding.encode(value) of the probed type
ProbeEncode ==
    /\ probe.next = "encode"
    /\ \E r \in {DataEncode(probe.type, probe.hist[Len(probe.hist)].v)} :
         probe' = [probe EXCEPT
                     !.hist = Append(@, [ok |-> r.ok, err |-> r.err, v |-> BitsV(r.bits)]),
                     !.next = IF r.ok /\ Len(probe.hist) = 1 THEN "decode" ELSE ""]
    /\ UNCHANGED <<ss, pc, given, msg, encoded, arg, call, stack, ret, log>>

\* data_encoding.decode(bits) of the probed type
ProbeDecode ==
    /\ probe.next = "decode"
    /\ \E r \in {DataDecode(probe.type, probe.hist[Len(probe.hist)].v.s, NoEntries)} :
         probe' = [probe EXCEPT
                     !.hist = Append(@, [ok |-> r.ok, err |-> r.err, v |-> r.v]),
                     !.next = IF r.ok /\ Len(probe.hist) = 1 THEN "encode" ELSE ""]
    /\ UNCHANGED <<ss, pc, given, msg, encoded, arg, call, stack, ret, log>>

\* calibrator.calibrate(x) of the probed calibrator
ProbeCalibrate ==
    /\ probe.next = "calibrate"
    /\ probe' = [probe EXCEPT
                   !.hist = Append(@, [ok |-> TRUE, err |-> "",
                                       v |-> Calibrate(probe.type.type,
                                                       probe.hist[Len(probe.hist)].v)]),
                   !.next = IF Len(probe.hist) = 1 THEN "uncalibrate" ELSE ""]
    /\ UNCHANGED <<ss, pc, given, msg, encoded, arg, call, stack, ret, log>>

\* calibrator.uncalibrate(y) of the probed calibrator
ProbeUncalibrate ==
    /\ probe.next = "uncalibrate"
    /\ \E r \in {Uncalibrate(probe.type.type, probe.hist[Len(probe.hist)].v)} :
         probe' = [probe EXCEPT
                     !.hist = Append(@, r),
                     !.next = IF r.ok /\ Len(probe.hist) = 1 THEN "calibrate" ELSE ""]
    /\ UNCHANGED <<ss, pc, given, msg, encoded, arg, call, stack, ret, log>>

CodecNext == ProbeEncode \/ ProbeDecode \/ ProbeCalibrate \/ ProbeUncalibrate

Codec == CodecInit /\ [][CodecNext]_vars

-----------------------------------------------------------------------------
\* Properties of encode and decode

\* C1: for every concrete message type T and every record that supplies the
\* fields of T's plan and satisfies T's restrictions, decode(T, encode(msg))
\* returns a record whose message type is T and whose entries equal msg's.
\* The record taken here holds exactly the fields encode emits, each with a
\* value its type represents, and the value of every restriction.
C1_RoundTrip ==
    LET T == msg.message_type
        bp == BuildEntryPlan(space_system, T)
        live == {j \in 1..Len(bp.plan) :
                   /\ bp.plan[j].ent.kind \in {"parameter", "argument"}
                   /\ ConditionsMet(bp.plan[j].conds, given).met}
        TypeOf(j) == GetEntryType(space_system,
                                  EntryTypeName(space_system, T, bp.plan[j].ent).typeRef)
        Fits(et, v) ==
            CASE et.type.kind = "integer" ->
                   /\ v.k = "int"
                   /\ IF et.type.signed
                      THEN -Pow2(et.type.sizeInBits - 1) <= v.i
                           /\ v.i < Pow2(et.type.sizeInBits - 1)
                      ELSE 0 <= v.i /\ v.i < Pow2(et.type.sizeInBits)
              [] et.type.kind = "boolean" -> v.k = "bool"
              [] et.type.kind = "binary" ->
                   /\ v.k = "bits"
                   /\ DataSize(et, given).ok
                   /\ Len(v.s) = DataSize(et, given).n
              [] OTHER ->
                   /\ v.k = "list"
                   /\ DataSize(et, given).ok
                   /\ Len(v.s) * et.item.sizeInBits = DataSize(et, given).n
    IN (/\ pc = "done"
        /\ encoded.ok
        /\ call.message_type = T
        /\ ~IsAbstract(space_system, T)
        /\ DOMAIN given = {bp.plan[j].ent.ref : j \in live}
        /\ \A j \in live : Fits(TypeOf(j), given[bp.plan[j].ent.ref])
        /\ \A k \in 1..Len(bp.restrictions) :
              /\ bp.restrictions[k].parameterRef \in DOMAIN given
              /\ given[bp.restrictions[k].parameterRef]
                   = IntV(PyInt(bp.restrictions[k].value).v))
       => (/\ ret.ok
           /\ ret.message_type = T
           /\ EntriesEq(ret.entries, msg.entries))

C3_NeverAbstract ==
    (pc = "done" /\ ret.ok) => ~IsAbstract(space_system, ret.message_type)

\* C3, as the code has it: decode returns a record of an abstract message
\* type only when require_concrete is false and that type's own plan decodes
\* the complete input with no bit left, the record being the one that plan
\* decodes; and with require_concrete false, an abstract type given to decode
\* whose own plan decodes the complete input is the type returned.
C3_AbstractWhenWhole ==
    LET Own(X) == DecodeMessage(space_system, X, call.b)
        Whole(own) == own.ok /\ own.b = <<>>
    IN /\ (pc = "done" /\ ret.ok /\ IsAbstract(space_system, ret.message_type))
          => (/\ ~call.require_concrete
              /\ Whole(Own(ret.message_type))
              /\ EntriesEq(ret.entries, Own(ret.message_type).entries))
       /\ (/\ pc = "done"
           /\ ~call.require_concrete
           /\ IsAbstract(space_system, call.message_type)
           /\ Whole(Own(call.message_type)))
          => (ret.ok /\ ret.message_type = call.message_type)

\* decode returned a record of an abstract type it reached as an inheritor.
C3_Reached ==
    /\ pc = "done"
    /\ ret.ok
    /\ IsAbstract(space_system, ret.message_type)
    /\ ret.message_type # call.message_type

\* C4: whenever decode is called with require_concrete = true and returns a
\* record, the record's message type is not abstract; when an abstract type's
\* own plan consumes the whole input with no bit left, decode still goes on to
\* that type's inheritors instead of returning the abstract type, at every
\* level of the recursion.
C4_RequireConcrete ==
    call.require_concrete =>
        /\ (pc = "done" /\ ret.ok) => ~IsAbstract(space_system, ret.message_type)
        /\ \A k \in 1..Len(log) :
              log[k].ev = "ok" => ~IsAbstract(space_system, log[k].message_type)
        /\ \A k \in 1..(Len(log) - 1) :
              (/\ log[k].ev = "try"
               /\ IsAbstract(space_system, log[k].message_type)
               /\ LET own == DecodeMessage(space_system, log[k].message_type, call.b)
                  IN own.ok /\ own.b = <<>>)
              => \/ /\ log[k + 1].ev = "try"
                    /\ log[k + 1].depth = log[k].depth + 1
                 \/ /\ log[k + 1].ev = "fail"
                    /\ log[k + 1].err = "noinheritor"
                    /\ log[k + 1].message_type = log[k].message_type
                    /\ FindInheritors(space_system, log[k].message_type) = <<>>

\* With require_concrete = true, decode went past an abstract inheritor whose
\* plan consumed the whole input and returned a concrete type below it.
C4_Reached ==
    /\ pc = "done"
    /\ call.require_concrete
    /\ ret.ok
    /\ \E k \in 1..Len(log) :
          /\ log[k].ev = "try"
          /\ log[k].depth = 2
          /\ IsAbstract(space_system, log[k].message_type)
          /\ LET own == DecodeMessage(space_system, log[k].message_type, call.b)
             IN own.ok /\ own.b = <<>>
    /\ log[Len(log)].depth = 3

C7_LengthIsSumOfSizes ==
    LET T == msg.message_type
        plan == BuildEntryPlan(space_system, T).plan
        Size(j) ==
            IF ~ConditionsMet(plan[j].conds, msg.entries).met
            THEN [ok |-> TRUE, n |-> 0]
            ELSE IF plan[j].ent.kind = "fixed"
            THEN [ok |-> TRUE, n |-> plan[j].ent.sizeInBits]
            ELSE DataSize(GetEntryType(space_system,
                                       EntryTypeName(space_system, T, plan[j].ent).typeRef),
                          msg.entries)
        sum[j \in 0..Len(plan)] == IF j = 0 THEN 0 ELSE sum[j - 1] + Size(j).n
    IN (encoded.ok /\ \A j \in 1..Len(plan) : Size(j).ok)
       => Len(encoded.bits) = sum[Len(plan)]

\* C8: when decode falls through to inheritors, it tries the direct
\* inheritors of the type in enumeration order (sequence containers in
\* dictionary order, then meta-commands in dictionary order), depth-first,
\* each attempt starting from a fresh copy of the complete original input,
\* and returns the result of the first attempt that succeeds; inheritors
\* after the first success are not tried and bits consumed by failed
\* attempts do not affect later attempts.
C8_InheritorOrder ==
    LET SS == space_system
        all == [j \in 1..Len(SS.sequenceContainer) |->
                   [set |-> "seq", name |-> SS.sequenceContainer[j].name]]
               \o [j \in 1..Len(SS.metaCommand) |->
                      [set |-> "cmd", name |-> SS.metaCommand[j].name]]
        ConName(X) == IF IsCommand(X) THEN TypeObject(SS, X).commandContainer.name
                      ELSE X.name
        BaseRef(X) == IF IsCommand(X)
                      THEN TypeObject(SS, X).commandContainer.baseContainer.containerRef
                      ELSE TypeObject(SS, X).baseContainer.containerRef
        Inheritors(P) == SelectSeq(all, LAMBDA X : BaseRef(X) = ConName(P))
        Parent(k) == log[CHOOSE j \in 1..(k - 1) :
                            /\ log[j].ev = "try"
                            /\ log[j].depth = log[k].depth - 1
                            /\ \A l \in (j + 1)..(k - 1) :
                                  ~(log[l].ev = "try" /\ log[l].depth = log[k].depth - 1)]
                      .message_type
    IN /\ \A i \in 1..Len(stack) : stack[i].bak = call.b
       /\ \A k \in 2..Len(log) :
             log[k].ev = "try" =>
                \/ /\ log[k - 1].ev = "try"
                   /\ log[k - 1].depth = log[k].depth - 1
                   /\ Inheritors(log[k - 1].message_type) # <<>>
                   /\ log[k].message_type = Inheritors(log[k - 1].message_type)[1]
                \/ /\ log[k - 1].ev = "fail"
                   /\ log[k - 1].depth = log[k].depth
                   /\ \E i \in 1..(Len(Inheritors(Parent(k))) - 1) :
                         /\ Inheritors(Parent(k))[i] = log[k - 1].message_type
                         /\ Inheritors(Parent(k))[i + 1] = log[k].message_type
       /\ \A k \in 1..(Len(log) - 1) : log[k].ev # "ok"
       /\ (pc = "done" /\ ret.ok)
          => /\ log[Len(log)].ev = "ok"
             /\ log[Len(log)].message_type = ret.message_type
             /\ LET own == DecodeMessage(SS, ret.message_type, call.b)
                IN own.ok /\ own.b = <<>> /\ ret.entries = own.entries

\* decode returned the record of an inheritor two levels down, a meta-command
\* under a meta-command tried after a sequence container that had failed, and
\* left an inheritor untried.
C8_Reached ==
    /\ pc = "done"
    /\ ret.ok
    /\ log[Len(log)].depth = 3
    /\ IsCommand(ret.message_type)
    /\ \E k \in 1..Len(log) : log[k].ev = "fail" /\ log[k].depth = 2
    /\ \E k \in 1..Len(log) :
          /\ log[k].ev = "try"
          /\ log[k].depth = 2
          /\ Cardinality({l \in 1..Len(log) : log[l].ev = "try" /\ log[l].depth = 3})
               < Len(FindInheritors(space_system, log[k].message_type))

\* C9: any error of any kind raised during a speculative inheritor attempt
\* (size mismatch, restriction violation, fixed-value mismatch, unknown
\* reference, leftover bits, failure of that inheritor's own inheritors) is
\* swallowed and the next inheritor is tried; if every inheritor fails, or the
\* abstract type has no inheritor, decode raises an error naming the abstract
\* type and the number of residual bits.
C9_AttemptErrorsSwallowed ==
    LET SS == space_system
        own == DecodeMessage(SS, call.message_type, call.b)
    IN /\ \A k \in 1..Len(log) :
             (log[k].ev = "fail" /\ log[k].depth > 1)
             => /\ k < Len(log) \/ pc = "decoding"
                /\ k < Len(log)
                   => \/ /\ log[k + 1].ev = "try"
                         /\ log[k + 1].depth = log[k].depth
                      \/ /\ log[k + 1].ev = "fail"
                         /\ log[k + 1].depth = log[k].depth - 1
                         /\ log[k + 1].err = "noinheritor"
       /\ (pc = "done" /\ ~ret.ok)
          => /\ log[Len(log)].ev = "fail"
             /\ log[Len(log)].depth = 1
             /\ ret.err = log[Len(log)].err
             /\ Len(log) > 2 => ret.err = "noinheritor"
       /\ (/\ pc = "done"
           /\ ~ret.ok
           /\ IsAbstract(SS, call.message_type)
           /\ own.ok
           /\ own.b # <<>> \/ call.require_concrete)
          => /\ ret.err = "noinheritor"
             /\ ret.name = call.message_type.name
             /\ ret.n_rem = Len(own.b)
       /\ (pc = "done" /\ ret.err = "noinheritor")
          => /\ ~ret.ok
             /\ IsAbstract(SS, call.message_type)
             /\ ret.name = call.message_type.name
             /\ ret.n_rem = Len(own.b)

\* Every inheritor of an abstract type failed, among them for an unknown
\* parameter, an unsupported operator, a restriction that did not hold and
\* bits left over, and decode raised the error that names the abstract type.
C9_Reached ==
    /\ pc = "done"
    /\ ret.err = "noinheritor"
    /\ ret.n_rem > 0
    /\ \A e \in {"unknown", "assert", "restriction", "remain"} :
          \E k \in 1..Len(log) :
             log[k].ev = "fail" /\ log[k].depth = 2 /\ log[k].err = e

\* C10: decode of a non-abstract type whose plan leaves one or more input
\* bits unconsumed raises an error and never tries that type's inheritors,
\* even when one of its inheritors would decode the input completely.
C10_ConcreteLeftover ==
    LET SS == space_system
        own == DecodeMessage(SS, call.message_type, call.b)
    IN /\ \A i \in 1..Len(stack) :
             stack[i].at = "loop" => IsAbstract(SS, stack[i].message_type)
       /\ \A k \in 1..(Len(log) - 1) :
             (log[k].ev = "try" /\ ~IsAbstract(SS, log[k].message_type))
             => /\ log[k + 1].ev \in {"ok", "fail"}
                /\ log[k + 1].message_type = log[k].message_type
                /\ log[k + 1].depth = log[k].depth
                /\ log[k + 1].ev = "ok"
                   => LET at == DecodeMessage(SS, log[k].message_type, call.b)
                      IN at.ok /\ at.b = <<>>
       /\ (/\ pc = "done"
           /\ ~IsAbstract(SS, call.message_type)
           /\ own.ok
           /\ own.b # <<>>)
          => /\ ~ret.ok
             /\ ret.err = "remain"
             /\ ret.name = call.message_type.name
             /\ ret.n_rem = Len(own.b)
             /\ Len(log) = 2

\* decode of a non-abstract type raised over the bits its plan left, though
\* an inheritor of the type decodes the input completely.
C10_Reached ==
    /\ pc = "done"
    /\ ~IsAbstract(space_system, call.message_type)
    /\ ret.err = "remain"
    /\ ret.n_rem > 0
    /\ \E j \in 1..Len(FindInheritors(space_system, call.message_type)) :
          LET inh == DecodeMessage(space_system,
                                   FindInheritors(space_system, call.message_type)[j],
                                   call.b)
          IN inh.ok /\ inh.b = <<>>

C12_NoShortSlice ==
    LET T == ret.message_type
        plan == BuildEntryPlan(space_system, T).plan
        Size(j) ==
            IF ~ConditionsMet(plan[j].conds, ret.entries).met
            THEN [ok |-> TRUE, n |-> 0]
            ELSE IF plan[j].ent.kind = "fixed"
            THEN [ok |-> TRUE, n |-> plan[j].ent.sizeInBits]
            ELSE DataSize(GetEntryType(space_system,
                                       EntryTypeName(space_system, T, plan[j].ent).typeRef),
                          ret.entries)
        sum[j \in 0..Len(plan)] == IF j = 0 THEN 0 ELSE sum[j - 1] + Size(j).n
    IN (pc = "done" /\ ret.ok)
       => /\ \A j \in 1..Len(plan) : Size(j).ok
          /\ sum[Len(plan)] = Len(call.b)

-----------------------------------------------------------------------------
\* Properties of the data encodings

\* C13: for every width n and every value v representable in n bits (0 <= v
\* < 2^n unsigned, -2^(n-1) <= v < 2^(n-1) two's complement), the integer
\* encoding without a calibrator returns exactly n bits, and bit j of them
\* (the first being the most significant) is bit n-j of v mod 2^n.
C13_ExactBits ==
    LET t == probe.type.type
        n == t.sizeInBits
        v == probe.hist[1].v
        out == probe.hist[2]
        Representable == IF t.signed THEN -Pow2(n - 1) <= v.i /\ v.i < Pow2(n - 1)
                         ELSE 0 <= v.i /\ v.i < Pow2(n)
    IN (/\ Len(probe.hist) >= 2
        /\ t.kind = "integer"
        /\ v.k = "int"
        /\ Representable)
       => /\ out.ok
          /\ Len(out.v.s) = n
          /\ \A j \in 1..n : out.v.s[j] = ((v.i % Pow2(n)) \div Pow2(n - j)) % 2

\* A negative value was encoded in a two's-complement width that is not a
\* whole number of bytes and wider than one byte.
C13_Reached ==
    /\ Len(probe.hist) >= 2
    /\ probe.type.type.kind = "integer"
    /\ probe.type.type.signed
    /\ probe.type.type.sizeInBits = 9
    /\ probe.hist[1].v.k = "int"
    /\ probe.hist[1].v.i = -3
    /\ probe.hist[2].ok
    /\ probe.hist[2].v.s = <<1, 1, 1, 1, 1, 1, 1, 0, 1>>

\* C14: for every integer encoding without a calibrator, of any width and
\* either signedness, decode(encode(v)) = v for every value v representable
\* in n bits, and encode(decode(b)) = b for every n-bit string b.
C14_RoundTrips ==
    LET t == probe.type.type
        n == t.sizeInBits
        in == probe.hist[1].v
        Representable == IF t.signed THEN -Pow2(n - 1) <= in.i /\ in.i < Pow2(n - 1)
                         ELSE 0 <= in.i /\ in.i < Pow2(n)
    IN (/\ t.kind = "integer"
        /\ probe.next = ""
        /\ probe.hist # <<>>
        /\ in.k = "int" => Representable)
       => /\ Len(probe.hist) = 3
          /\ probe.hist[3].ok
          /\ probe.hist[3].v.k = in.k
          /\ IF in.k = "int" THEN probe.hist[3].v.i = in.i
             ELSE probe.hist[3].v.s = in.s

\* C15: the data encoding of a boolean type accepts the type's two labels:
\* encoding oneStringValue gives the wrapped integer encoding of 1, encoding
\* zeroStringValue that of 0.
C15_LabelsAccepted ==
    LET t == probe.type.type
        in == probe.hist[1].v
        out == probe.hist[2]
    IN (/\ Len(probe.hist) >= 2
        /\ t.kind = "boolean"
        /\ in.k = "str"
        /\ in.s \in {t.oneStringValue, t.zeroStringValue})
       => /\ out.ok
          /\ out.v.s = IntegerEncode(t, IntV(IF in.s = t.oneStringValue THEN 1 ELSE 0)).bits

\* C16: for a string encoding with a buffer of B bytes and a string whose
\* UTF-8 bytes number L, encode returns exactly B bytes: the first B encoded
\* bytes when L > B; the encoded bytes alone when L = B; when L < B the
\* encoded bytes, then the termination if and only if one is configured and
\* L + len(termination) <= B, then zero bytes up to B.
C16_ExactlyTheBuffer ==
    LET t == probe.type.type
        B == t.sizeInBits \div 8
        in == probe.hist[1].v
        out == probe.hist[2]
        Byte(j) == FromBits(SubSeq(out.v.s, (8 * j) - 7, 8 * j))
        enc == Utf8Encode(in.s)
        L == Len(enc)
        term == IF t.terminationChar = <<<<0, 0>>>> THEN <<0>>
                ELSE IF t.terminationChar = <<>> THEN <<>> ELSE <<13, 10>>
        fits == term # <<>> /\ L + Len(term) <= B
        expected == IF L >= B THEN SubSeq(enc, 1, B)
                    ELSE IF fits THEN enc \o term \o Zeros(B - L - Len(term))
                    ELSE enc \o Zeros(B - L)
    IN (/\ Len(probe.hist) >= 2
        /\ t.kind = "string"
        /\ t.sizeInBits > 0
        /\ t.sizeInBits % 8 = 0
        /\ in.k = "str")
       => /\ out.ok
          /\ Len(out.v.s) = 8 * B
          /\ \A j \in 1..B : Byte(j) = expected[j]

\* A one-byte string was encoded into a three-byte buffer with the two-byte
\* termination 0D0A, which fits exactly.
C16_Reached ==
    /\ Len(probe.hist) >= 2
    /\ probe.type.type.kind = "string"
    /\ probe.type.type.sizeInBits = 24
    /\ probe.type.type.terminationChar = <<<<0, 13, 0, 10>>>>
    /\ probe.hist[1].v.k = "str"
    /\ probe.hist[1].v.s = <<"A">>
    /\ probe.hist[2].ok
    /\ probe.hist[2].v.s = ToBits(65, 8) \o ToBits(13, 8) \o ToBits(10, 8)

\* C17: for every fixed-size string encoding, without termination or with a
\* one-byte or multi-byte termination, and every string whose UTF-8 bytes
\* are no longer than the buffer, decode(encode(s)) = s.
C17_StringRoundTrip ==
    LET t == probe.type.type
        in == probe.hist[1].v
    IN (/\ t.kind = "string"
        /\ t.sizeInBits > 0
        /\ t.sizeInBits % 8 = 0
        /\ probe.next = ""
        /\ probe.hist # <<>>
        /\ in.k = "str"
        /\ 8 * Len(Utf8Encode(in.s)) <= t.sizeInBits)
       => /\ Len(probe.hist) = 3
          /\ probe.hist[3].ok
          /\ probe.hist[3].v = in

-----------------------------------------------------------------------------
\* Properties of decode: arrays and the fields of the returned record

\* C18: in a decode that returns, an array field whose dimension resolves,
\* under the fields decoded before it, to c = end - start + 1 elements holds a
\* list of exactly c elements, element i being the value of the i-th run of
\* element-size bits after the fields before it; the field after the array
\* holds the value of the bits that follow those c runs (at once, when c = 0),
\* and the bits before the array, the c runs and the entries after it make
\* up the whole input.
C18_ArrayConsumed ==
    LET T == ret.message_type
        plan == BuildEntryPlan(space_system, T).plan
        Type(j) == GetEntryType(space_system,
                                EntryTypeName(space_system, T, plan[j].ent).typeRef)
        Size(j) ==
            IF ~ConditionsMet(plan[j].conds, ret.entries).met THEN 0
            ELSE IF plan[j].ent.kind = "fixed" THEN plan[j].ent.sizeInBits
            ELSE Type(j).type.sizeInBits
        Arrays == {j \in 1..Len(plan) :
                     /\ plan[j].ent.kind \in {"parameter", "argument"}
                     /\ Type(j).type.kind = "array"}
        before[j \in 0..Len(plan)] == IF j = 0 THEN 0 ELSE before[j - 1] + Size(j)
        after[j \in 1..(Len(plan) + 1)] ==
            IF j = Len(plan) + 1 THEN 0 ELSE after[j + 1] + Size(j)
    IN (pc = "done" /\ ret.ok)
       => \A j \in Arrays :
            LET t == Type(j).type
                sz == Type(j).item.sizeInBits
                c == (IF t.endingIndex.fixed THEN t.endingIndex.value
                      ELSE ret.entries[t.endingIndex.ref].i)
                     - (IF t.startingIndex.fixed THEN t.startingIndex.value
                        ELSE ret.entries[t.startingIndex.ref].i) + 1
                got == ret.entries[plan[j].ent.ref]
                first == before[j - 1]
            IN /\ got.k = "list"
               /\ Len(got.s) = c
               /\ \A i \in 1..c :
                    got.s[i] = FromBits(SubSeq(call.b, first + ((i - 1) * sz) + 1,
                                               first + (i * sz)))
               /\ j < Len(plan) =>
                    ret.entries[plan[j + 1].ent.ref].i =
                      FromBits(SubSeq(call.b, first + (c * sz) + 1,
                                      first + (c * sz) + Size(j + 1)))
               /\ first + (c * sz) + after[j + 1] = Len(call.b)

\* A buffer with a count of 2, the elements 1 and 0 in that order and a
\* field after them was decoded.
C18_Reached ==
    /\ pc = "done"
    /\ ret.ok
    /\ ret.message_type = [set |-> "seq", name |-> "Samples"]
    /\ call.b = <<1, 0, 1, 0, 1, 0, 1>>
    /\ ret.entries["Count"].i = 2
    /\ ret.entries["Data"].s = <<1, 0>>
    /\ ret.entries["Check"].i = 1

-----------------------------------------------------------------------------
\* Properties of the calibrator

\* C19: for every linear calibrator with non-zero slope, uncalibrate of
\* calibrate(x) is x for every integer raw value x, and calibrate of
\* uncalibrate(y) is y for every calibrated value y.
C19_MutualInverses ==
    (/\ probe.type.type.kind = "polynomial"
     /\ probe.type.type.term[2] # 0
     /\ probe.next = ""
     /\ probe.hist # <<>>)
    => /\ Len(probe.hist) = 3
       /\ probe.hist[3].v.i = probe.hist[1].v.i

\* C20: every field name of a record decode returns is the name of a
\* parameter or argument entry of the plan of the returned message type, and
\* the record is the one the returned type's own decoding of the input
\* gives: nothing decoded in a failed attempt on another inheritor or in the
\* abandoned decoding of an abstract ancestor is in it.
C20_OnlyPlanFields ==
    LET plan == BuildEntryPlan(space_system, ret.message_type).plan
        Names == {plan[j].ent.ref : j \in {i \in 1..Len(plan) :
                                            plan[i].ent.kind \in {"parameter", "argument"}}}
    IN (pc = "done" /\ ret.ok)
       => /\ DOMAIN ret.entries \subseteq Names
          /\ ret.entries = DecodeMessage(space_system, ret.message_type, call.b).entries

\* decode of the abstract Base returned a record of Mid after the attempt on
\* Long, tried before it, had decoded the field Extra and then failed for
\* want of bits; Extra is not in the returned record.
C20_Reached ==
    /\ pc = "done"
    /\ ret.ok
    /\ call.message_type = [set |-> "seq", name |-> "Base"]
    /\ call.b = <<0, 1, 1, 0>>
    /\ ret.message_type = [set |-> "seq", name |-> "Mid"]
    /\ \E j \in 1..Len(log) :
         /\ log[j] = Event("fail", [set |-> "seq", name |-> "Long"], "size", 2)
         /\ "Extra" \in DOMAIN DecodeMessage(space_system, log[j].message_type,
                                             call.b).entries
    /\ DOMAIN ret.entries = {"Kind", "Val"}
    /\ ret.entries["Val"].i = 2

\* C21: every call of _decode_message fails, returning no record, as soon as
\* a parameter entry it decoded has a stringified value different from the
\* value of a restriction of the chain on that parameter: the attempt ends
\* with an error, and what it had decoded and taken from its buffer by then
\* is what the plan up to and including that entry decodes and takes, no
\* later entry consumed (seen in the caller's buffer when the attempt is the
\* outermost one).  (Stated of the attempt that ended last, which every
\* attempt is in the state it ends in.)
C21_ViolationIsFatal ==
    LET SS == space_system
        \* free[k]: the loop over the first k entries of the plan, run without
        \* restrictions; dm: what _decode_message comes to
        Check(i, plan, restrictions, free, dm) ==
            LET Violates(k) ==
                    /\ plan[k].ent.kind = "parameter"
                    /\ free[k - 1].ok
                    /\ ConditionsMet(plan[k].conds, free[k - 1].entries).met
                    /\ free[k].ok
                    /\ \E r \in 1..Len(restrictions) :
                          /\ restrictions[r].parameterRef = plan[k].ent.ref
                          /\ Str(free[k].entries[plan[k].ent.ref]) # restrictions[r].value
            IN \A k \in {h \in 1..Len(plan) :
                            Violates(h) /\ \A j \in 1..(h - 1) : ~Violates(j)} :
                  /\ log[i + 1].ev = "fail"
                  /\ log[i + 1].message_type = log[i].message_type
                  /\ log[i + 1].depth = log[i].depth
                  /\ log[i + 1].err \in {"restriction", "assert"}
                  /\ ~dm.ok
                  /\ dm.entries = free[k].entries
                  /\ dm.b = free[k].b
                  /\ i = 1 => (pc = "done" /\ ~ret.ok /\ arg = free[k].buf)
        Attempt(i) ==
            \A bp \in {BuildEntryPlan(SS, log[i].message_type)} :
               (bp.ok /\ ArgIndex(SS, log[i].message_type) = "")
               => \A free \in {[k \in 0..Len(bp.plan) |->
                                  DecodePlan(SS, log[i].message_type,
                                             SubSeq(bp.plan, 1, k), <<>>,
                                             Fresh(call.b))]} :
                     Check(i, bp.plan, bp.restrictions, free,
                           DecodeMessage(SS, log[i].message_type, call.b))
        tries == {h \in 1..Len(log) : log[h].ev = "try"}
    IN \A i \in {h \in tries : \A g \in tries : g <= h} :
          (i < Len(log) \/ pc = "done" \/ Top.at = "loop") => Attempt(i)

\* decode, called with a type whose plan goes on after a restricted
\* parameter, raised because the value decoded for that parameter differs
\* from the restriction's: the caller's buffer has lost the bits up to that
\* parameter and still holds those of the later entries.
C21_Reached ==
    /\ pc = "done"
    /\ ~ret.ok
    /\ ret.err = "restriction"
    /\ Len(log) = 2
    /\ arg # <<>>
    /\ Len(arg) < Len(call.b)
    /\ \E k \in 1..Len(BuildEntryPlan(space_system, call.message_type).plan) :
          LET bp == BuildEntryPlan(space_system, call.message_type)
          IN /\ bp.plan[k].ent.kind = "parameter"
             /\ k < Len(bp.plan)
             /\ \E r \in 1..Len(bp.restrictions) :
                   bp.restrictions[r].parameterRef = bp.plan[k].ent.ref

\* C22: the plan of a message type is, for its chain of containers C0 (its
\* own) -> C1 -> ... -> Cn (the root), the entries of Cn, then those of Cn-1,
\* ..., then those of C0, each container's entries in entryList order (a
\* ContainerRefEntry of a sequence container standing for the plan of the
\* container it names), the chain being sequence containers throughout or
\* command containers followed by sequence containers; and encode emits a
\* plan without conditions in that order, the root's fields first.
C22_RootFirst ==
    LET SS == space_system
        Expected(mt) ==
            LET link[j \in 0..MaxChain] ==
                    IF j = 0
                    THEN [ok |-> TRUE, command |-> IsCommand(mt),
                          con |-> IF IsCommand(mt)
                                  THEN TypeObject(SS, mt).commandContainer
                                  ELSE TypeObject(SS, mt)]
                    ELSE LET prev == link[j - 1]
                             g == GetContainer(SS, prev.con.baseContainer.containerRef)
                         IN IF ~prev.ok \/ prev.con.baseContainer.containerRef = ""
                            THEN [ok |-> FALSE, command |-> FALSE, con |-> NoContainer]
                            ELSE [ok |-> g.ok, command |-> prev.command /\ g.command,
                                  con |-> g.con]
                Own(l) ==
                    LET ents == l.con.entryList
                        upto[n \in 0..Len(ents)] ==
                            IF n = 0 THEN <<>>
                            ELSE IF ents[n].kind = "container" /\ ~l.command
                            THEN LET emb == BuildEntryPlan(
                                                SS, [set |-> "seq", name |-> ents[n].ref]).plan
                                 IN upto[n - 1] \o [p \in 1..Len(emb) |-> emb[p].ent]
                            ELSE Append(upto[n - 1], ents[n])
                    IN upto[Len(ents)]
                from[j \in 0..MaxChain] ==
                    IF ~link[j].ok THEN <<>>
                    ELSE (IF j < MaxChain THEN from[j + 1] ELSE <<>>) \o Own(link[j])
            IN from[0]
        InOrder(mt) ==
            LET bp == BuildEntryPlan(SS, mt)
            IN bp.ok => [p \in 1..Len(bp.plan) |-> bp.plan[p].ent] = Expected(mt)
    IN /\ pc # "idle" /\ msg.message_type # NoMessageType => InOrder(msg.message_type)
       /\ \A t \in {log[i].message_type : i \in 1..Len(log)} : InOrder(t)
       /\ (pc = "encoded" /\ encoded.ok)
          => LET plan == BuildEntryPlan(SS, msg.message_type).plan
             IN (\A p \in 1..Len(plan) : plan[p].conds = <<>>)
                => [p \in 1..Len(encoded.segs) |-> encoded.segs[p].name]
                     = [p \in 1..Len(plan) |-> plan[p].ent.ref]

\* encode returned the bits of a command whose own command container, the
\* command container under it and the sequence container at the root each
\* have entries: four segments, the root's first entry first and the
\* command's own entry last.
C22_Reached ==
    /\ pc = "encoded"
    /\ encoded.ok
    /\ IsCommand(msg.message_type)
    /\ Len(encoded.segs) = 4
    /\ LET own == TypeObject(space_system, msg.message_type).commandContainer
           mid == GetContainer(space_system, own.baseContainer.containerRef)
           root == GetContainer(space_system, mid.con.baseContainer.containerRef)
       IN /\ mid.ok /\ mid.command
          /\ root.ok /\ ~root.command
          /\ root.con.baseContainer.containerRef = ""
          /\ own.entryList # <<>> /\ mid.con.entryList # <<>>
          /\ encoded.segs[1].name = root.con.entryList[1].ref
          /\ encoded.segs[3].name = mid.con.entryList[1].ref
          /\ encoded.segs[4].name = own.entryList[1].ref

\* C23: in the plan of a message type, a ContainerRefEntry of a sequence
\* container of the chain is replaced, at its position, by the plan of the
\* container it names, each inlined entry carrying the include-condition
\* comparisons of the ContainerRefEntry followed by the conditions it has in
\* that plan; an entry that stands in a container of the chain itself carries
\* no conditions; and an entry reached through a ContainerRefEntry inside a
\* container that a ContainerRefEntry names carries the comparisons of the
\* outer reference followed by those of the inner one.
C23_ConditionsOutermostFirst ==
    LET SS == space_system
        Named(name) == [set |-> "seq", name |-> name]
        \* the containers of the chain of mt that are read as sequence containers
        Links(mt) ==
            LET link[i \in 0..MaxChain] ==
                    IF i = 0
                    THEN [ok |-> TRUE, command |-> IsCommand(mt),
                          con |-> IF IsCommand(mt)
                                  THEN TypeObject(SS, mt).commandContainer
                                  ELSE TypeObject(SS, mt)]
                    ELSE LET prev == link[i - 1]
                             g == GetContainer(SS, prev.con.baseContainer.containerRef)
                         IN IF ~prev.ok \/ prev.con.baseContainer.containerRef = ""
                            THEN [ok |-> FALSE, command |-> FALSE, con |-> NoContainer]
                            ELSE [ok |-> g.ok, con |-> g.con,
                                  command |-> prev.command /\ g.command]
            IN [i \in 0..MaxChain |-> link[i]]
        Inlined(l) ==
            LET ents == l.con.entryList
                upto[n \in 0..Len(ents)] ==
                    IF n = 0 THEN <<>>
                    ELSE IF ents[n].kind = "container" /\ ~l.command
                    THEN LET emb == BuildEntryPlan(SS, Named(ents[n].ref)).plan
                         IN upto[n - 1]
                            \o [p \in 1..Len(emb) |->
                                  [ent |-> emb[p].ent,
                                   conds |-> ents[n].includeCondition \o emb[p].conds]]
                    ELSE Append(upto[n - 1], [ent |-> ents[n], conds |-> <<>>])
            IN upto[Len(ents)]
        Expected(links) ==
            LET from[j \in 0..MaxChain] ==
                    IF ~links[j].ok THEN <<>>
                    ELSE (IF j < MaxChain THEN from[j + 1] ELSE <<>>) \o Inlined(links[j])
            IN from[0]
        \* the entries that stand in the sequence containers of a chain
        Own(links) ==
            UNION {{links[j].con.entryList[n] : n \in 1..Len(links[j].con.entryList)} :
                   j \in {i \in 0..MaxChain : links[i].ok /\ ~links[i].command}}
        Refs(links) == {e \in Own(links) : e.kind = "container"}
        Law(mt) ==
            \A bp \in {BuildEntryPlan(SS, mt)} : \A links \in {Links(mt)} :
               bp.ok
               => /\ bp.plan = Expected(links)
                  /\ \A e \in Refs(links) : \A f \in Refs(Links(Named(e.ref))) :
                        \A x \in Own(Links(Named(f.ref))) :
                           x.kind # "container"
                           => \E p \in 1..Len(bp.plan) :
                                 bp.plan[p] = [ent |-> x,
                                               conds |-> e.includeCondition
                                                           \o f.includeCondition]
    IN /\ pc # "idle" /\ msg.message_type # NoMessageType => Law(msg.message_type)
       /\ \A t \in {log[i].message_type : i \in 1..Len(log)} : Law(t)

\* decode returned a record of a type whose plan ends with an entry that is
\* two container references deep and carries two comparisons, the outer
\* reference's first, after an entry one reference deep that carries one and
\* an entry of the type's own container that carries none; all three fields
\* were decoded.
C23_Reached ==
    /\ pc = "done"
    /\ ret.ok
    /\ LET plan == BuildEntryPlan(space_system, ret.message_type).plan
           own == TypeObject(space_system, ret.message_type).entryList
       IN /\ ~IsCommand(ret.message_type)
          /\ Len(plan) = 3
          /\ Len(own) = 2 /\ own[2].kind = "container"
          /\ plan[1].conds = <<>>
          /\ plan[2].conds = own[2].includeCondition
          /\ Len(plan[3].conds) = 2
          /\ plan[3].conds[1] = own[2].includeCondition[1]
          /\ plan[3].conds[2].parameterRef = plan[2].ent.ref
          /\ \A p \in 1..3 : plan[p].ent.ref \in DOMAIN ret.entries

\* C24: in every encode and every decode that returns, a plan entry with
\* conditions is processed exactly when, for each of its comparisons, str()
\* of the record's value under the comparison's parameterRef, as the record
\* stands when the entry is reached, equals the comparison's value.  encode
\* emits one segment for each processed entry, in plan order, and none for
\* a skipped one; decode takes no bit from the buffer and adds nothing to
\* the record at a skipped entry, stores the field of a processed parameter
\* or argument entry, and returns a record whose fields are those of the
\* processed entries.
C24_ProcessedIffConditionsHold ==
    LET SS == space_system
        Holds(conds, entries) ==
            \A c \in 1..Len(conds) :
               /\ conds[c].parameterRef \in DOMAIN entries
               /\ Str(entries[conds[c].parameterRef]) = conds[c].value
        Field(e) == e.kind \in {"parameter", "argument"}
    IN /\ encoded.ok
          => LET plan == BuildEntryPlan(SS, msg.message_type).plan
                 done == {p \in 1..Len(plan) : Holds(plan[p].conds, msg.entries)}
             IN /\ Len(encoded.segs) = Cardinality(done)
                /\ \A p \in done :
                      encoded.segs[Cardinality({q \in done : q <= p})].name
                        = plan[p].ent.ref
                /\ encoded.bits = Concat(encoded.segs)
       /\ (pc = "done" /\ ret.ok)
          => LET bp == BuildEntryPlan(SS, ret.message_type)
                 at == [p \in 0..Len(bp.plan) |->
                          DecodePlan(SS, ret.message_type, SubSeq(bp.plan, 1, p),
                                     bp.restrictions, Fresh(call.b))]
                 done == {p \in 1..Len(bp.plan) :
                            Holds(bp.plan[p].conds, at[p - 1].entries)}
             IN /\ \A p \in 1..Len(bp.plan) :
                      IF p \in done
                      THEN Field(bp.plan[p].ent)
                           => bp.plan[p].ent.ref \in DOMAIN at[p].entries
                      ELSE /\ at[p].b = at[p - 1].b
                           /\ at[p].entries = at[p - 1].entries
                /\ ret.entries = at[Len(bp.plan)].entries
                /\ DOMAIN ret.entries
                     = {bp.plan[p].ent.ref : p \in {q \in done : Field(bp.plan[q].ent)}}

\* encode wrote, and decode read back, a record of a type whose plan has two
\* entries with conditions, one processed (the integer the record holds
\* prints as the comparison's string) and one skipped, for which the caller
\* had given a value: the one has a segment and is in the returned record,
\* the other has neither.
C24_Reached ==
    /\ pc = "done"
    /\ encoded.ok
    /\ ret.ok
    /\ ret.message_type = msg.message_type
    /\ LET plan == BuildEntryPlan(space_system, msg.message_type).plan
           Holds(conds) ==
               \A c \in 1..Len(conds) :
                  /\ conds[c].parameterRef \in DOMAIN msg.entries
                  /\ Str(msg.entries[conds[c].parameterRef]) = conds[c].value
           names == {encoded.segs[k].name : k \in 1..Len(encoded.segs)}
       IN \E p, q \in 1..Len(plan) :
             /\ plan[p].conds # <<>> /\ Holds(plan[p].conds)
             /\ plan[p].ent.ref \in names \cap DOMAIN ret.entries
             /\ plan[q].conds # <<>> /\ ~Holds(plan[q].conds)
             /\ plan[q].ent.ref \in DOMAIN given
             /\ plan[q].ent.ref \notin names \cup DOMAIN ret.entries

\* C25, as stated: in every decode attempt, when entry k of the plan is
\* reached, the record holds every field that the comparisons of entry k
\* that are evaluated, or the dynamic size of its type, refer to and that is
\* the field of an earlier entry of the plan.  (Stated of the attempt that
\* ended last, which every attempt is in the state it ends in.)
C25_EarlierFieldsResolve ==
    LET SS == space_system
        Field(e) == e.kind \in {"parameter", "argument"}
        Attempt(mt) ==
            LET bp == BuildEntryPlan(SS, mt)
                at == [k \in 0..Len(bp.plan) |->
                         DecodePlan(SS, mt, SubSeq(bp.plan, 1, k), bp.restrictions,
                                    Fresh(call.b))]
                \* the comparisons of entry k that conditions_met reads the record for
                Read(k) ==
                    {c \in 1..Len(bp.plan[k].conds) :
                       LET m == ConditionsMet(SubSeq(bp.plan[k].conds, 1, c - 1),
                                              at[k - 1].entries)
                       IN m.ok /\ m.met /\ bp.plan[k].conds[c].comparisonOperator = "=="}
                SizeRefs(k) ==
                    LET tn == EntryTypeName(SS, mt, bp.plan[k].ent)
                        et == GetEntryType(SS, tn.typeRef)
                    IN IF ~Field(bp.plan[k].ent) \/ ~tn.ok \/ ~et.ok THEN {}
                       ELSE IF et.type.kind = "binary" /\ et.type.sizeInBits = 0
                       THEN {et.type.sizeRef}
                       ELSE IF et.type.kind = "array"
                       THEN {ix.ref : ix \in {x \in {et.type.startingIndex,
                                                     et.type.endingIndex} : ~x.fixed}}
                       ELSE {}
                Refers(k) ==
                    {bp.plan[k].conds[c].parameterRef : c \in Read(k)}
                    \cup (IF ConditionsMet(bp.plan[k].conds, at[k - 1].entries).met
                          THEN SizeRefs(k) ELSE {})
            IN (bp.ok /\ ArgIndex(SS, mt) = "")
               => \A k \in 1..Len(bp.plan) :
                     at[k - 1].ok
                     => \A n \in Refers(k) :
                           (\E j \in 1..(k - 1) :
                               Field(bp.plan[j].ent) /\ bp.plan[j].ent.ref = n)
                           => n \in DOMAIN at[k - 1].entries
        tries == {h \in 1..Len(log) : log[h].ev = "try"}
    IN \A i \in {h \in tries : \A g \in tries : g <= h} :
          (i < Len(log) \/ pc = "done" \/ Top.at = "loop")
          => Attempt(log[i].message_type)

\* C25, as the code has it: in every decode attempt the entries are taken in
\* plan order, each taking bits from the front of what the one before left
\* and adding at most its own field to the record; when entry k is reached,
\* every field its evaluated comparisons or its dynamic size refer to that an
\* earlier entry decoded is in the record with the value of the latest such
\* entry, and if all the fields they refer to were decoded, entry k does not
\* fail for a missing field; a field they refer to that no earlier entry
\* decoded (its entry skipped on its own conditions) makes the attempt fail.
\* (Stated of the attempt that ended last, which every attempt is in the
\* state it ends in.)
C25_DecodedFieldsResolve ==
    LET SS == space_system
        Field(e) == e.kind \in {"parameter", "argument"}
        \* the fields the dynamic size of an entry's type refers to
        SizeRefs(mt, ent) ==
            LET tn == EntryTypeName(SS, mt, ent)
                et == GetEntryType(SS, tn.typeRef)
            IN IF ~Field(ent) \/ ~tn.ok \/ ~et.ok THEN {}
               ELSE IF et.type.kind = "binary" /\ et.type.sizeInBits = 0
               THEN {et.type.sizeRef}
               ELSE IF et.type.kind = "array"
               THEN {ix.ref : ix \in {x \in {et.type.startingIndex,
                                             et.type.endingIndex} : ~x.fixed}}
               ELSE {}
        \* plan: the plan; at[k]: the loop after entry k; met[k]: whether the
        \* conditions of entry k held when it was reached
        Check(i, mt, plan, at, met) ==
            LET Read(k) ==
                    {c \in 1..Len(plan[k].conds) :
                       LET m == ConditionsMet(SubSeq(plan[k].conds, 1, c - 1),
                                              at[k - 1].entries)
                       IN m.ok /\ m.met /\ plan[k].conds[c].comparisonOperator = "=="}
                Refers(k) ==
                    {plan[k].conds[c].parameterRef : c \in Read(k)}
                    \cup (IF met[k] THEN SizeRefs(mt, plan[k].ent) ELSE {})
                \* the earlier entries that decoded field n
                Decoded(k, n) ==
                    {j \in 1..(k - 1) :
                       Field(plan[j].ent) /\ plan[j].ent.ref = n /\ met[j]}
            IN /\ \A k \in 1..Len(plan) :
                     at[k - 1].ok
                     => /\ Len(at[k].b) <= Len(at[k - 1].b)
                        /\ at[k].b = SliceFrom(at[k - 1].b,
                                               Len(at[k - 1].b) - Len(at[k].b))
                        /\ DOMAIN at[k].entries \subseteq
                             DOMAIN at[k - 1].entries \cup {plan[k].ent.ref}
                        /\ \A n \in Refers(k) :
                              IF Decoded(k, n) # {}
                              THEN /\ n \in DOMAIN at[k - 1].entries
                                   /\ \E j \in Decoded(k, n) :
                                         /\ \A h \in Decoded(k, n) : h <= j
                                         /\ at[k - 1].entries[n] = at[j].entries[n]
                              ELSE ~at[k].ok /\ at[k].err \in {"key", "dynamic"}
                        /\ (\A n \in Refers(k) : Decoded(k, n) # {})
                           => (at[k].ok \/ at[k].err \notin {"key", "dynamic"})
               /\ IF at[Len(plan)].ok
                  THEN (i < Len(log) /\ log[i + 1].ev = "ok")
                       => ret.entries = at[Len(plan)].entries
                  ELSE /\ log[i + 1].ev = "fail"
                       /\ log[i + 1].err = at[Len(plan)].err
        Attempt(i) ==
            \A bp \in {BuildEntryPlan(SS, log[i].message_type)} :
               (bp.ok /\ ArgIndex(SS, log[i].message_type) = "")
               => \A at \in {[k \in 0..Len(bp.plan) |->
                                DecodePlan(SS, log[i].message_type,
                                           SubSeq(bp.plan, 1, k), bp.restrictions,
                                           Fresh(call.b))]} :
                     \A met \in {[k \in 1..Len(bp.plan) |->
                                     at[k - 1].ok
                                     /\ ConditionsMet(bp.plan[k].conds,
                                                      at[k - 1].entries).met]} :
                        Check(i, log[i].message_type, bp.plan, at, met)
        tries == {h \in 1..Len(log) : log[h].ev = "try"}
    IN \A i \in {h \in tries : \A g \in tries : g <= h} :
          (i < Len(log) \/ pc = "done" \/ Top.at = "loop") => Attempt(i)

\* decode returned a record of a type whose plan has an entry with a
\* condition over the field of an earlier entry that has a condition of its
\* own: both entries were processed, the record holding the earlier field
\* when the later entry was reached.
C25_Reached ==
    /\ pc = "done"
    /\ ret.ok
    /\ LET plan == BuildEntryPlan(space_system, ret.message_type).plan
       IN \E k \in 1..Len(plan) : \E j \in 1..(k - 1) :
             /\ plan[j].conds # <<>>
             /\ plan[j].ent.kind = "parameter"
             /\ plan[k].ent.kind = "parameter"
             /\ plan[j].ent.ref # plan[k].ent.ref
             /\ Len(plan[k].conds) = 1
             /\ plan[k].conds[1].parameterRef = plan[j].ent.ref
             /\ plan[j].conds[1].parameterRef # plan[j].ent.ref
             /\ {plan[j].ent.ref, plan[k].ent.ref} \subseteq DOMAIN ret.entries
             /\ Str(ret.entries[plan[j].ent.ref]) = plan[k].conds[1].value

\* C26: planning a message type whose base-container chain revisits a
\* container ends with an error: no call of encode or decode stays in the
\* planner forever.
C26_PlanningEnds == pc # "hung"

\* C27: decode does not modify the bit buffer the caller passes in: when
\* decode has returned a record or raised, after whatever attempts on
\* inheritors, the caller's buffer holds the bits it held at the call.
C27_BufferUntouched == pc = "done" => arg = call.b

\* C28: IntegerDataEncoding.encode raises for every value that sizeInBits
\* bits cannot hold under the encoding's signedness (below 0 or from 2^n on
\* when unsigned, outside -2^(n-1) .. 2^(n-1) - 1 when two's complement),
\* whatever the width n; it returns bits for no such value.
C28_OutOfRangeRejected ==
    (/\ probe.type.type.kind = "integer"
     /\ Len(probe.hist) >= 2
     /\ probe.hist[1].v.k = "int")
    => LET n == probe.type.type.sizeInBits
           v == probe.hist[1].v.i
           fits == IF probe.type.type.signed
                   THEN -Pow2(n - 1) <= v /\ v < Pow2(n - 1)
                   ELSE 0 <= v /\ v < Pow2(n)
       IN ~fits => ~probe.hist[2].ok

\* C29: whenever decode returns a record, the message type it returns is the
\* type decode was called with or one whose container leads to that type's
\* container along baseContainer links, and the plan of the returned type,
\* run on the whole buffer decode was called with, decodes the returned
\* record and leaves no bit.
C29_WholeInputByDescendant ==
    (pc = "done" /\ ret.ok)
    => LET SS == space_system
           Own(mt) == IF IsCommand(mt) THEN TypeObject(SS, mt).commandContainer
                      ELSE TypeObject(SS, mt)
           up[j \in 0..MaxChain] ==
               IF j = 0 THEN Own(ret.message_type)
               ELSE LET prev == up[j - 1]
                    IN IF prev.baseContainer.containerRef = "" THEN NoContainer
                       ELSE GetContainer(SS, prev.baseContainer.containerRef).con
       IN /\ \/ ret.message_type = call.message_type
             \/ \E j \in 1..MaxChain : up[j] # NoContainer
                                       /\ up[j] = Own(call.message_type)
          /\ \A dm \in {DecodeMessage(SS, ret.message_type, call.b)} :
                dm.ok /\ dm.b = <<>> /\ dm.entries = ret.entries

\* decode, called with an abstract type and a buffer on which that type's
\* own plan left bits, returned a record of a type more than one
\* baseContainer link below it, after an attempt on another type had failed.
C29_Reached ==
    /\ pc = "done"
    /\ ret.ok
    /\ call.b # <<>>
    /\ IsAbstract(space_system, call.message_type)
    /\ DecodeMessage(space_system, call.message_type, call.b).b # <<>>
    /\ ret.message_type # call.message_type
    /\ ret.message_type
         \notin {FindInheritors(space_system, call.message_type)[j] :
                   j \in 1..Len(FindInheritors(space_system, call.message_type))}
    /\ \E i \in 1..Len(log) : log[i].ev = "fail"

====
